---- MODULE Spec2Model ----
(***************************************************************************)
(* The Pyright WebSocket bridge of src/pyright-bridge.ts (the version with *)
(* the Ruff formatting diversion, lines 160-355): one backend process per  *)
(* accepted WebSocket connection, a relay in each direction, the request   *)
(* interceptor of the client-to-backend direction, and the teardown        *)
(* handlers.                                                               *)
(*                                                                         *)
(* Strings (paths, URIs) are sequences of tokens; a token stands for a     *)
(* substring no operation of the program looks into: "file:" "/" "." ".."  *)
(* " " "%" and names.  "%" followed by "20", "25" or "2F" is a percent     *)
(* escape (space, percent, slash); "%" followed by anything else is a      *)
(* malformed escape.  An optional JSON field is <<>> (absent) or <<v>>.    *)
(***************************************************************************)
EXTENDS Integers, Sequences, FiniteSets, TLC

VARIABLES
    argv,        \* process.argv.slice(2): the arguments of the command line
    args,        \* the result of parseArgs(): port, bot-root, jesse-root
    service,     \* the service process: state, listening port, exit code
    ruffEnv,     \* process.env.RUFF_PATH
    execs,       \* the executables that exist on disk (paths)
    ruffRuns,    \* the outcomes a run of the formatter may have
    log,         \* the lines written to the console that the claims name
    root,        \* BOT_ROOT, the execution root (a path)
    files,       \* the files that exist on disk (absolute, normalized paths)
    content,     \* content[f]: the text of file f
    ws,          \* ws[c]: readyState of connection c's WebSocket
    proc,        \* proc[c]: state of connection c's Pyright process
    pid,         \* pid[c]: the process spawned for connection c (0: none)
    nSpawn,      \* number of spawn() calls so far
    errPending,  \* errPending[c]: an 'error' event of c's process is queued
    signals,     \* signals[c]: signals delivered to c's process
    closeFrames, \* closeFrames[c]: close frames sent on c's WebSocket
    wsIn,        \* wsIn[c]: client messages received on c, not yet handled
    stdout,      \* stdout[c]: backend messages in c's stdout pipe, not yet decoded
    toBackend,   \* toBackend[c]: the writer.write calls on c's backend stdin
    toClient,    \* toClient[c]: the wsWriter.write calls on c's WebSocket
    nMsgs,       \* messages sent so far by the clients and the backends
    busy         \* the connection whose formatting handler is running (0: none)

envVars == <<argv, args, ruffEnv, execs, ruffRuns>>

vars == <<envVars, service, log, root, files, content, ws, proc, pid, nSpawn, errPending, signals, closeFrames,
          wsIn, stdout, toBackend, toClient, nMsgs, busy>>

(***************************************************************************)
(* Bounds of the model.                                                    *)
(***************************************************************************)
MaxMsgs == 3
MaxTextLen == 3

\* Two sessions: a connection's handlers close over that connection's own
\* objects (lines 250-353), so a third adds no behaviour.
Conns == {1, 2}

None == <<>>
Some(v) == <<v>>

(***************************************************************************)
(* String helpers: String.prototype.startsWith and the one-shot            *)
(* String.prototype.replace(pattern, '') of lines 296 and 311.             *)
(***************************************************************************)
FileScheme == <<"file:", "/", "/">>
FileSchemeSlash == <<"file:", "/", "/", "/">>

StartsWith(s, p) == Len(s) >= Len(p) /\ SubSeq(s, 1, Len(p)) = p

RECURSIVE IndexOf(_, _, _)
IndexOf(s, p, i) ==
    IF i + Len(p) - 1 > Len(s) THEN 0
    ELSE IF SubSeq(s, i, i + Len(p) - 1) = p THEN i
    ELSE IndexOf(s, p, i + 1)

ReplaceFirst(s, p) ==
    LET i == IndexOf(s, p, 1)
    IN  IF i = 0 THEN s ELSE SubSeq(s, 1, i - 1) \o SubSeq(s, i + Len(p), Len(s))

(***************************************************************************)
(* node:path (posix): split on "/", normalizeString, normalize, join,      *)
(* resolve.  Cwd is process.cwd().                                         *)
(***************************************************************************)
Cwd == <<"/", "opt">>

RECURSIVE Split(_)
Split(s) ==
    IF s = <<>> THEN << <<>> >>
    ELSE LET r == Split(Tail(s))
         IN  IF Head(s) = "/" THEN << <<>> >> \o r
             ELSE << <<Head(s)>> \o Head(r) >> \o Tail(r)

RECURSIVE JoinSegs(_)
JoinSegs(segs) ==
    IF segs = <<>> THEN <<>>
    ELSE IF Len(segs) = 1 THEN segs[1]
    ELSE segs[1] \o <<"/">> \o JoinSegs(Tail(segs))

RECURSIVE NormSegs(_, _, _)
NormSegs(segs, acc, allowAbove) ==
    IF segs = <<>> THEN acc
    ELSE LET g == Head(segs)
             acc2 == IF g = <<>> \/ g = <<".">> THEN acc
                     ELSE IF g = <<"..">>
                          THEN IF acc # <<>> /\ acc[Len(acc)] # <<"..">>
                               THEN SubSeq(acc, 1, Len(acc) - 1)
                               ELSE IF allowAbove THEN Append(acc, g) ELSE acc
                          ELSE Append(acc, g)
         IN  NormSegs(Tail(segs), acc2, allowAbove)

IsAbsolute(p) == p # <<>> /\ p[1] = "/"

PathNormalize(p) ==
    IF p = <<>> THEN <<".">>
    ELSE LET abs == IsAbsolute(p)
             trailing == p[Len(p)] = "/"
             body == JoinSegs(NormSegs(Split(p), <<>>, ~abs))
         IN  IF body = <<>>
             THEN IF abs THEN <<"/">> ELSE IF trailing THEN <<".", "/">> ELSE <<".">>
             ELSE (IF abs THEN <<"/">> ELSE <<>>) \o body
                  \o (IF trailing THEN <<"/">> ELSE <<>>)

PathJoin(a, b) ==
    IF a = <<>> /\ b = <<>> THEN <<".">>
    ELSE IF a = <<>> THEN PathNormalize(b)
    ELSE IF b = <<>> THEN PathNormalize(a)
    ELSE PathNormalize(a \o <<"/">> \o b)

PathResolve(p) ==
    LET full == IF IsAbsolute(p) THEN p
                ELSE IF p = <<>> THEN Cwd ELSE Cwd \o <<"/">> \o p
    IN  <<"/">> \o JoinSegs(NormSegs(Split(full), <<>>, FALSE))

(***************************************************************************)
(* fs.existsSync: the path, resolved, is a file on disk or a directory     *)
(* above one.                                                              *)
(***************************************************************************)
IsPrefix(a, b) == Len(a) <= Len(b) /\ SubSeq(b, 1, Len(a)) = a

ExistsSync(p) ==
    LET segs == NormSegs(Split(PathResolve(p)), <<>>, FALSE)
    IN  \E f \in files : IsPrefix(segs, NormSegs(Split(f), <<>>, FALSE))

(***************************************************************************)
(* node:url (posix).  pathToFileURL resolves the path, puts back a         *)
(* trailing slash, and percent-encodes; fileURLToPath parses the URL       *)
(* (host, dot segments), rejects a host and an encoded slash, and          *)
(* percent-decodes.  A result is [ok, v]: ok = FALSE is a thrown error.    *)
(***************************************************************************)
RECURSIVE Encode(_)
Encode(s) ==
    IF s = <<>> THEN <<>>
    ELSE (IF Head(s) = " " THEN <<"%", "20">>
          ELSE IF Head(s) = "%" THEN <<"%", "25">>
          ELSE <<Head(s)>>) \o Encode(Tail(s))

HexPairs == {"20", "25", "2F"}
HexChar(h) == IF h = "20" THEN " " ELSE IF h = "25" THEN "%" ELSE "/"

RECURSIVE Decode(_)
Decode(s) ==
    IF s = <<>> THEN [ok |-> TRUE, v |-> <<>>]
    ELSE IF Head(s) = "%"
         THEN IF Len(s) >= 2 /\ s[2] \in HexPairs
              THEN LET r == Decode(SubSeq(s, 3, Len(s)))
                   IN  [ok |-> r.ok, v |-> <<HexChar(s[2])>> \o r.v]
              ELSE [ok |-> FALSE, v |-> <<>>]
         ELSE LET r == Decode(Tail(s))
              IN  [ok |-> r.ok, v |-> <<Head(s)>> \o r.v]

PathToFileURL(p) ==
    LET resolved == PathResolve(p)
        slashed == IF p # <<>> /\ p[Len(p)] = "/" /\ resolved[Len(resolved)] # "/"
                   THEN resolved \o <<"/">> ELSE resolved
    IN  FileScheme \o Encode(slashed)

\* The WHATWG URL parser's path state: "." and ".." segments are resolved,
\* empty segments are kept, a trailing dot segment leaves a trailing slash.
RECURSIVE UrlSegs(_, _)
UrlSegs(segs, acc) ==
    IF segs = <<>> THEN acc
    ELSE LET g == Head(segs)
             last == Len(segs) = 1
             popped == IF acc = <<>> THEN acc ELSE SubSeq(acc, 1, Len(acc) - 1)
             acc2 == IF g = <<"..">> THEN (IF last THEN Append(popped, <<>>) ELSE popped)
                     ELSE IF g = <<".">> THEN (IF last THEN Append(acc, <<>>) ELSE acc)
                     ELSE Append(acc, g)
         IN  UrlSegs(Tail(segs), acc2)

HasEncodedSlash(s) == \E i \in 1..(Len(s) - 1) : s[i] = "%" /\ s[i + 1] = "2F"

\* uri starts with "file://" where this is called (line 296).
FileURLToPath(uri) ==
    LET rest == SubSeq(uri, Len(FileScheme) + 1, Len(uri))
        slash == IndexOf(rest, <<"/">>, 1)
        host == IF slash = 0 THEN rest ELSE SubSeq(rest, 1, slash - 1)
        rawPath == IF slash = 0 THEN <<>> ELSE SubSeq(rest, slash + 1, Len(rest))
        pathname == <<"/">> \o JoinSegs(UrlSegs(Split(rawPath), <<>>))
    IN  IF host # <<>> THEN [ok |-> FALSE, v |-> <<>>]
        ELSE IF HasEncodedSlash(pathname) THEN [ok |-> FALSE, v |-> <<>>]
        ELSE Decode(pathname)

(***************************************************************************)
(* Messages.  A client message is [id, method, params, extra]: extra is a  *)
(* top-level field the bridge does not know.  params is                    *)
(* [kind, rootUri, workspaceFolders, textDocument, other] with kind        *)
(* "absent" (no params field), "null" or "object"; textDocument is         *)
(* [uri, version]; other is a params field the bridge does not look at (a   *)
(* text: in a formatting request, the document text the client supplies).  *)
(***************************************************************************)
NoParams(kind) ==
    [kind |-> kind, rootUri |-> None, workspaceFolders |-> None,
     textDocument |-> None, other |-> None]

EmptyObject == NoParams("object")

DocParams(uri, other) ==
    [kind |-> "object", rootUri |-> None, workspaceFolders |-> None,
     textDocument |-> Some([uri |-> uri, version |-> Some(1)]), other |-> other]

Msg(id, method, params, extra) ==
    [id |-> id, method |-> method, params |-> params, extra |-> extra]

(***************************************************************************)
(* The request interceptor: the wsReader.listen callback up to the         *)
(* forward-or-divert decision (lines 272-327).                             *)
(***************************************************************************)
WorkspaceName == "jesse-ai"

\* An injection that keeps a rootUri the client supplied.
InjectInitializeKeep(msg) ==
    IF msg.method = "initialize"
    THEN LET p == IF msg.params.kind = "object" THEN msg.params ELSE EmptyObject
             rootUri == PathToFileURL(root)
         IN  [msg EXCEPT !.params =
                  [p EXCEPT !.rootUri = IF @ = None THEN Some(rootUri) ELSE @,
                            !.workspaceFolders =
                                Some(<<[uri |-> rootUri, name |-> WorkspaceName]>>)]]
    ELSE msg

\* An injection that builds the params anew, dropping what the client sent.
InjectInitializeReplace(msg) ==
    IF msg.method = "initialize"
    THEN LET rootUri == PathToFileURL(root)
         IN  [msg EXCEPT !.params =
                  [EmptyObject EXCEPT !.rootUri = Some(rootUri),
                                      !.workspaceFolders =
                                          Some(<<[uri |-> rootUri, name |-> WorkspaceName]>>)]]
    ELSE msg

\* lines 276-289
InjectInitialize(msg) ==
    IF msg.method = "initialize"
    THEN LET p == IF msg.params.kind = "object" THEN msg.params ELSE EmptyObject
             rootUri == PathToFileURL(root)
         IN  [msg EXCEPT !.params =
                  [p EXCEPT !.rootUri = Some(rootUri),
                            !.workspaceFolders =
                                Some(<<[uri |-> rootUri, name |-> WorkspaceName]>>)]]
    ELSE msg

\* The normalization of the version before (lines 122-130): a location
\* with the file:// scheme is left alone.
NormalizeUriV1(uri) ==
    IF ~StartsWith(uri, FileScheme)
    THEN FileScheme \o PathJoin(root, uri)
    ELSE uri

\* A normalization that keeps the client's location when the path joined
\* to the root is no existing file either.
NormalizeUriChecked(uri) ==
    LET joined(p) == IF ExistsSync(PathJoin(root, p))
                     THEN PathToFileURL(PathJoin(root, p)) ELSE uri
    IN  IF StartsWith(uri, FileScheme)
        THEN LET filePath == FileURLToPath(uri)
             IN  IF filePath.ok
                 THEN IF ~ExistsSync(filePath.v) THEN joined(filePath.v) ELSE uri
                 ELSE joined(ReplaceFirst(ReplaceFirst(uri, FileSchemeSlash), FileScheme))
        ELSE joined(uri)

\* A normalization whose catch block leaves the location as it is.
NormalizeUriNoFallback(uri) ==
    IF StartsWith(uri, FileScheme)
    THEN LET filePath == FileURLToPath(uri)
         IN  IF filePath.ok
             THEN IF ~ExistsSync(filePath.v)
                  THEN PathToFileURL(PathJoin(root, filePath.v))
                  ELSE uri
             ELSE uri
    ELSE PathToFileURL(PathJoin(root, uri))

\* A normalization without the check of line 303: the path of every
\* file:// URI is joined to the root.
NormalizeUriAlwaysJoin(uri) ==
    IF StartsWith(uri, FileScheme)
    THEN LET filePath == FileURLToPath(uri)
         IN  IF filePath.ok
             THEN PathToFileURL(PathJoin(root, filePath.v))
             ELSE PathToFileURL(PathJoin(root,
                      ReplaceFirst(ReplaceFirst(uri, FileSchemeSlash), FileScheme)))
    ELSE PathToFileURL(PathJoin(root, uri))

\* lines 293-320: the new value of params.textDocument.uri
NormalizeUri(uri) ==
    IF StartsWith(uri, FileScheme)
    THEN LET filePath == FileURLToPath(uri)
         IN  IF filePath.ok
             THEN IF ~ExistsSync(filePath.v)
                  THEN PathToFileURL(PathJoin(root, filePath.v))
                  ELSE uri
             ELSE PathToFileURL(PathJoin(root,
                      ReplaceFirst(ReplaceFirst(uri, FileSchemeSlash), FileScheme)))
    ELSE PathToFileURL(PathJoin(root, uri))

\* line 292: msg.params?.textDocument?.uri is truthy
HasDocumentUri(msg) ==
    /\ msg.params.kind = "object"
    /\ msg.params.textDocument # None
    /\ msg.params.textDocument[1].uri # None
    /\ msg.params.textDocument[1].uri[1] # <<>>

\* lines 291-321
NormalizeLocation(msg) ==
    IF HasDocumentUri(msg)
    THEN LET td == msg.params.textDocument[1]
         IN  [msg EXCEPT !.params.textDocument =
                  Some([td EXCEPT !.uri = Some(NormalizeUri(td.uri[1]))])]
    ELSE msg

\* A diversion of whole-document formatting only.
IsFormattingRequestWhole(msg) == msg.method = "textDocument/formatting"

\* line 324
IsFormattingRequest(msg) ==
    msg.method = "textDocument/formatting" \/ msg.method = "textDocument/rangeFormatting"

Intercept(msg) == NormalizeLocation(InjectInitialize(msg))

(***************************************************************************)
(* The inputs.  Spec relays the few messages of ClientMsgs on two         *)
(* connections; SpecWide passes every message of WideMsgs through the      *)
(* interceptor of one connection, for every root of Roots and every file   *)
(* system of FileSystems.                                                  *)
(***************************************************************************)
RootApp == <<"/", "srv", "/", "app">>
RootSpace == <<"/", "srv", "/", "my", " ", "app">>
Roots == {RootApp, RootSpace}

FileInApp == <<"/", "srv", "/", "app", "/", "s", "/", "a.py">>
FileInSpace == <<"/", "srv", "/", "my", " ", "app", "/", "s", "/", "a.py">>
FileAtTop == <<"/", "s", "/", "a.py">>
FileSystems == {{}, {FileInApp, FileInSpace}, {FileInApp, FileInSpace, FileAtTop}}

RelativeLocs ==
    { <<"a.py">>,
      <<"s", "/", "a.py">>,
      <<"..", "/", "a.py">>,
      <<"s", "/", "my", " ", "f.py">>,
      <<"/", "s", "/", "a.py">>,
      FileInApp,
      <<"untitled:", "a.py">> }

FileUriLocs ==
    { FileScheme \o <<"/", "s", "/", "a.py">>,
      FileScheme \o <<"/", "s", "/", "b.py">>,
      FileScheme \o FileInApp,
      FileScheme \o <<"/", "s", "/", "my", "%", "20", "f.py">>,
      FileScheme \o <<"/", "s", "/", "..", "/", "s", "/", "a.py">>,
      FileScheme \o <<"/", "srv", "/", "my", "%", "20", "app", "/", "s", "/", "a.py">> }

MalformedLocs ==
    { FileScheme \o <<"s", "/", "a.py">>,
      FileScheme \o <<"/", "s", "%", "2F", "a.py">>,
      FileScheme \o <<"/", "s", "/", "a", "%", "zz">> }

Locs == RelativeLocs \cup FileUriLocs \cup MalformedLocs \cup {<<>>}

Methods ==
    {"initialize", "textDocument/didOpen", "textDocument/hover",
     "textDocument/formatting", "textDocument/rangeFormatting"}

OtherUri == FileScheme \o <<"/", "home", "/", "client">>

WideParams ==
    {NoParams("absent"), NoParams("null")}
    \cup { [kind |-> "object", rootUri |-> r, workspaceFolders |-> w,
            textDocument |-> t, other |-> o] :
              r \in {None, Some(OtherUri)},
              w \in {None, Some(<<[uri |-> OtherUri, name |-> "client"]>>)},
              t \in {None, Some([uri |-> None, version |-> None])}
                    \cup {Some([uri |-> Some(l), version |-> Some(1)]) : l \in Locs},
              o \in {None, Some(<<"k">>)} }

WideMsgs ==
    { Msg(i, me, p, e) :
        i \in {None, Some(7)}, me \in Methods, p \in WideParams, e \in {None, Some("x")} }

ClientMsgs ==
    { Msg(Some(1), "initialize", NoParams("absent"), None),
      Msg(Some(2), "textDocument/hover",
          DocParams(Some(FileScheme \o FileInApp), Some(<<"k">>)), Some("x")),
      Msg(Some(3), "textDocument/formatting",
          DocParams(Some(FileScheme \o <<"/", "s", "/", "a.py">>), None), None),
      Msg(Some(4), "textDocument/rangeFormatting",
          DocParams(Some(<<"s", "/", "a.py">>), Some(<<"k">>)), None) }

\* A message of the backend or of the local handler to the client.  Its
\* body is a result or an error: [kind, code, message, edits].
Reply(id, method, body) == [id |-> id, method |-> method, body |-> body]

Opaque(name) == [kind |-> name, code |-> "", message |-> <<>>, edits |-> <<>>]

BackendMsgs ==
    { Reply(Some(1), None, Opaque("capabilities")),
      Reply(None, Some("textDocument/publishDiagnostics"), Opaque("diagnostics")) }

\* A frame of the client, and output of the backend, that is not a JSON
\* message: no field of it is ever read.
MalformedFrame == Msg(None, "", NoParams("absent"), Some("not JSON"))
MalformedOutput == Reply(None, None, Opaque("not JSON"))

JesseRoot == <<"/", "srv", "/", "jesse">>

\* Texts, and the outcomes of a run of the formatter: [exit, out, stderr,
\* io, rmdir].  io is "ok", or the file operation of the handler that
\* fails ("write": the temporary file is not written; "read": it is not
\* read back); rmdir is whether the temporary directory gets removed.
Chars == {"x", "\n"}
Texts == UNION {[1..n -> Chars] : n \in 0..MaxTextLen}

Unformatted == <<"x", "\n", "\n">>
Formatted == <<"x", "\n">>

RunOk(out) == [exit |-> 0, out |-> out, stderr |-> <<>>, io |-> "ok", rmdir |-> TRUE]
RunFailed == [exit |-> 1, out |-> <<>>, stderr |-> <<"E501">>, io |-> "ok", rmdir |-> TRUE]

(***************************************************************************)
(* The library calls the handlers make.                                    *)
(***************************************************************************)
\* A bridge that spawned one backend for all its connections.
SpawnShared(c, ok) ==
    /\ nSpawn' = IF nSpawn = 0 THEN 1 ELSE nSpawn
    /\ pid' = [pid EXCEPT ![c] = 1]
    /\ proc' = [proc EXCEPT ![c] = IF ok THEN "running" ELSE "spawnfail"]
    /\ errPending' = [errPending EXCEPT ![c] = ~ok]

\* child_process.spawn (lines 257-260): a ChildProcess is made either way; a
\* failed spawn queues the process's 'error' event.
Spawn(c, ok) ==
    /\ nSpawn' = nSpawn + 1
    /\ pid' = [pid EXCEPT ![c] = nSpawn + 1]
    /\ proc' = [proc EXCEPT ![c] = IF ok THEN "running" ELSE "spawnfail"]
    /\ errPending' = [errPending EXCEPT ![c] = ~ok]

\* A kill that signals whatever the state of the process.
KillEffectAlways(p) == [proc |-> "killed", signals |-> p.signals + 1]

\* ChildProcess.kill() on p = [proc, signals] (line 341): a signal goes to a
\* process that runs; for one that has gone, or never started, kill()
\* returns false and does nothing.
KillEffect(p) ==
    IF p.proc = "running"
    THEN [proc |-> "killed", signals |-> p.signals + 1]
    ELSE p

\* WebSocket.close() on w = [ws, closeFrames] (line 347): an open socket
\* sends its close frame and is CLOSING; on a socket that is CLOSING or
\* CLOSED it does nothing.
CloseEffect(w) ==
    IF w.ws = "open"
    THEN [ws |-> "closing", closeFrames |-> w.closeFrames + 1]
    ELSE w

ProcOf(c) == [proc |-> proc[c], signals |-> signals[c]]
SocketOf(c) == [ws |-> ws[c], closeFrames |-> closeFrames[c]]

\* A handler whose pyright is not its connection's own but the process
\* spawned last.
PyrightKillLast(c) ==
    LET d == CHOOSE x \in Conns : pid[x] = nSpawn
    IN  /\ proc' = [proc EXCEPT ![d] = KillEffect(ProcOf(d)).proc]
        /\ signals' = [signals EXCEPT ![d] = KillEffect(ProcOf(d)).signals]

\* pyright.kill() (line 341)
PyrightKill(c) ==
    /\ proc' = [proc EXCEPT ![c] = KillEffect(ProcOf(c)).proc]
    /\ signals' = [signals EXCEPT ![c] = KillEffect(ProcOf(c)).signals]

\* ws.close() (line 347)
WsClose(c) ==
    /\ ws' = [ws EXCEPT ![c] = CloseEffect(SocketOf(c)).ws]
    /\ closeFrames' = [closeFrames EXCEPT ![c] = CloseEffect(SocketOf(c)).closeFrames]

\* A writer made once, for the first process, and used by every connection.
WriterWriteShared(c, msg) ==
    toBackend' = [toBackend EXCEPT ![1] =
                      Append(@, [msg |-> msg, live |-> proc[1] = "running"])]

\* A writer that puts a message before the ones written earlier.
WriterWriteFirst(c, msg) ==
    toBackend' = [toBackend EXCEPT ![c] =
                      <<[msg |-> msg, live |-> proc[c] = "running"]>> \o @]

\* writer.write(msg) (line 329): live records whether the process runs.
WriterWrite(c, msg) ==
    toBackend' = [toBackend EXCEPT ![c] =
                      Append(@, [msg |-> msg, live |-> proc[c] = "running"])]

\* A writer whose socket sends whatever its state.
WsWriterWriteAlways(c, src, msg) ==
    toClient' = [toClient EXCEPT ![c] =
                     Append(@, [src |-> src, msg |-> msg, delivered |-> TRUE])]

\* wsWriter.write(msg) (line 335): a socket that is not OPEN sends nothing.
WsWriterWrite(c, src, msg) ==
    toClient' = [toClient EXCEPT ![c] =
                     Append(@, [src |-> src, msg |-> msg, delivered |-> ws[c] = "open"])]

(***************************************************************************)
(* The configuration of lines 172-202.                                     *)
(***************************************************************************)
\* __dirname (line 173): the directory of the bundle
Dirname == <<"/", "opt", "/", "bridge">>

BundledRuff == PathJoin(Dirname, <<"bin", "/", "ruff">>)
CustomRuff == <<"/", "usr", "/", "bin", "/", "ruff">>

\* Number(s) on the strings given as --port: a string of decimal digits
\* is its value, undefined and any other string are NaN.  [nan, n]
Digits == <<"0", "1", "2", "3", "4", "5", "6", "7", "8", "9">>
IsDigit(ch) == \E i \in 1..Len(Digits) : Digits[i] = ch
DigitValue(ch) == (CHOOSE i \in 1..Len(Digits) : Digits[i] = ch) - 1

RECURSIVE Decimal(_)
Decimal(s) ==
    IF s = <<>> THEN 0
    ELSE 10 * Decimal(SubSeq(s, 1, Len(s) - 1)) + DigitValue(s[Len(s)])

NaN == [nan |-> TRUE, n |-> 0]

\* A Number() with a default port.
ToNumberDefault(v) ==
    IF v = None THEN [nan |-> FALSE, n |-> 9011]
    ELSE IF v[1] # <<>> /\ \A i \in 1..Len(v[1]) : IsDigit(v[1][i])
    THEN [nan |-> FALSE, n |-> Decimal(v[1])]
    ELSE NaN

ToNumber(v) ==
    IF v # None /\ v[1] # <<>> /\ \A i \in 1..Len(v[1]) : IsDigit(v[1][i])
    THEN [nan |-> FALSE, n |-> Decimal(v[1])]
    ELSE NaN

\* !x of a number: NaN and 0 are falsy
Falsy(x) == x.nan \/ x.n = 0

\* An argument is a sequence of pieces; the piece "--" is the two dashes a
\* flag starts with, and <<>> is the empty string.
Flag(key) == <<"--">> \o key

KeyPort == <<"port">>
KeyBotRoot == <<"bot-root">>
KeyJesseRoot == <<"jesse-root">>

\* parsed[key] = value (line 185) on a Record: parsed is a function from
\* its keys to their values.
SetKey(parsed, key, value) ==
    [k \in DOMAIN parsed \cup {key} |-> IF k = key THEN value ELSE parsed[k]]

\* A loop that takes the token after a flag for its value whatever it is.
RECURSIVE ParseLoopAnyValue(_, _, _)
ParseLoopAnyValue(a, i, parsed) ==
    IF i > Len(a) THEN parsed
    ELSE IF StartsWith(a[i], <<"--">>) /\ i + 1 <= Len(a)
         THEN ParseLoopAnyValue(a, i + 2, SetKey(parsed, Tail(a[i]), a[i + 1]))
         ELSE ParseLoopAnyValue(a, i + 1, parsed)

ParseArgsAnyValue(a) == ParseLoopAnyValue(a, 1, <<>>)

\* The loop of lines 179-188 from index i on (i counts from 1): a flag
\* whose next token is there, is not empty and does not start with "--"
\* sets its key and the loop steps over the value.
RECURSIVE ParseLoop(_, _, _)
ParseLoop(a, i, parsed) ==
    IF i > Len(a) THEN parsed
    ELSE IF StartsWith(a[i], <<"--">>)
         THEN IF i + 1 <= Len(a) /\ a[i + 1] # <<>> /\ ~StartsWith(a[i + 1], <<"--">>)
              THEN ParseLoop(a, i + 2, SetKey(parsed, Tail(a[i]), a[i + 1]))
              ELSE ParseLoop(a, i + 1, parsed)
         ELSE ParseLoop(a, i + 1, parsed)

\* parseArgs() (lines 175-192) on the argument list a
ParseArgs(a) == ParseLoop(a, 1, <<>>)

\* args['key'] (lines 198-200): undefined for a key that is not there
Lookup(parsed, key) == IF key \in DOMAIN parsed THEN Some(parsed[key]) ELSE None

\* The three arguments the bridge reads (lines 198-200)
ArgsRead(parsed) ==
    [port |-> Lookup(parsed, KeyPort), botRoot |-> Lookup(parsed, KeyBotRoot),
     jesseRoot |-> Lookup(parsed, KeyJesseRoot)]

\* A command line that gives the arguments of a.
ArgvOf(a) ==
    (IF a.port = None THEN <<>> ELSE <<Flag(KeyPort), a.port[1]>>)
    \o (IF a.botRoot = None THEN <<>> ELSE <<Flag(KeyBotRoot), a.botRoot[1]>>)
    \o (IF a.jesseRoot = None THEN <<>> ELSE <<Flag(KeyJesseRoot), a.jesseRoot[1]>>)

\* lines 198-200
PYRIGHT_WS_PORT == ToNumber(args.port)
BOT_ROOT == args.botRoot
JESSE_ROOT == args.jesseRoot

\* A configuration that does not read the environment.
RUFF_PATH_Bundled == BundledRuff

\* line 202: process.env.RUFF_PATH || join(__dirname, 'bin/ruff'); an
\* unset or empty variable is falsy.
RUFF_PATH ==
    IF ruffEnv # None /\ ruffEnv[1] # <<>> THEN ruffEnv[1] ELSE BundledRuff

(***************************************************************************)
(* The local formatting handler, handleFormatting of formatting.ts.  A     *)
(* text is a sequence of characters; "\n" is the line terminator.          *)
(***************************************************************************)
Newline == "\n"

\* text.split('\n'): the lines of t, without their terminators; a text
\* that ends with a terminator has an empty last line.
RECURSIVE SplitLines(_)
SplitLines(t) ==
    IF \A i \in 1..Len(t) : t[i] # Newline THEN <<t>>
    ELSE LET k == CHOOSE i \in 1..Len(t) :
                      t[i] = Newline /\ \A j \in 1..(i - 1) : t[j] # Newline
         IN  <<SubSeq(t, 1, k - 1)>> \o SplitLines(SubSeq(t, k + 1, Len(t)))

EndsWithNewline(t) == t # <<>> /\ t[Len(t)] = Newline

Position(line, character) == [line |-> line, character |-> character]

\* The end of line number n (from 1) of lines, as a position (from 0).
EndOfLine(lines, n) == Position(n - 1, Len(lines[n]))

\* A range that ends on the empty line after a trailing terminator.
WholeDocumentRangeToEnd(t) ==
    [start |-> Position(0, 0),
     end |-> EndOfLine(SplitLines(t), Len(SplitLines(t)))]

\* The replaced range: from the start of the document to the end of the
\* original's last content line, which is the line before a trailing
\* terminator, else the last line.
WholeDocumentRange(t) ==
    [start |-> Position(0, 0),
     end |-> IF EndsWithNewline(t)
             THEN EndOfLine(SplitLines(t), Len(SplitLines(t)) - 1)
             ELSE EndOfLine(SplitLines(t), Len(SplitLines(t)))]

TextEdit(range, newText) == [range |-> range, newText |-> newText]

Result(edits) == [kind |-> "result", code |-> "", message |-> <<>>, edits |-> edits]
Error(code, message) == [kind |-> "error", code |-> code, message |-> message, edits |-> <<>>]

\* The file system as the handler sees it: a function from paths to texts.
WriteFileSync(fs, p, t) == [q \in DOMAIN fs \cup {p} |-> IF q = p THEN t ELSE fs[q]]
UnlinkSync(fs, p) == [q \in DOMAIN fs \ {p} |-> fs[q]]

\* The isolated temporary file of a request.
TmpDir == <<"/", "tmp", "/", "ruff-format">>
TmpFile == PathJoin(TmpDir, <<"document.py">>)

\* `formatter format p`: a run that exits with 0 leaves the formatted text
\* in p; any other exit leaves p alone.
RuffFormat(fs, p, run) ==
    IF run.exit = 0 THEN WriteFileSync(fs, p, run.out) ELSE fs

\* The document location of the request, resolved to a path: [ok, v],
\* ok = FALSE without a location that resolves.
DocumentUri(msg) == msg.params.textDocument[1].uri[1]
DocumentPath(msg) ==
    IF HasDocumentUri(msg) THEN FileURLToPath(DocumentUri(msg))
    ELSE [ok |-> FALSE, v |-> <<>>]

\* The text the client supplies with the request, or the empty text.
InlineText(msg) == IF msg.params.other # None THEN msg.params.other[1] ELSE <<>>

\* The document's current text: the copy on disk at path p, else the
\* inline text.
DocumentText(fs, msg, p) == IF p \in DOMAIN fs THEN fs[p] ELSE InlineText(msg)

\* A handler that runs the formatter on the document itself.
FormatterTargetOriginal(p) == p

\* The file the formatter is run against for the document at path p: the
\* temporary copy only.
FormatterTarget(p) == TmpFile

\* A cleanup that keeps the temporary file of a failed request.
CleanupOnSuccess(fs, run) ==
    IF run.exit = 0 /\ run.io = "ok" THEN UnlinkSync(fs, TmpFile) ELSE fs

\* The scoped cleanup: the temporary file is deleted on every exit path.
Cleanup(fs, run) == UnlinkSync(fs, TmpFile)

\* The formatter is there and the temporary file, with the document's
\* text, is written: the outcome [body, fs, log] of the run.  run.io names
\* the file operation that fails, if one does; run.rmdir is the removal of
\* the temporary directory.
FormatWith(fs, p, text, run) ==
    [body |-> IF run.exit # 0 THEN Error("formatting-failed", run.stderr)
              ELSE IF run.io = "read" THEN Error("io-failure", <<>>)
              ELSE Result(<<TextEdit(WholeDocumentRange(text),
                                     RuffFormat(WriteFileSync(fs, TmpFile, text),
                                                FormatterTarget(p), run)[TmpFile])>>),
     fs |-> Cleanup(RuffFormat(WriteFileSync(fs, TmpFile, text),
                               FormatterTarget(p), run), run),
     log |-> IF run.rmdir THEN <<>> ELSE <<"tmpdir not removed">>]

\* The whole handler on file system fs, for the request msg whose location
\* resolved as loc: the outcome [body, fs, log].
FormatDocument(fs, msg, loc, ruffPath, run) ==
    IF ~loc.ok
    THEN [body |-> Error("invalid-params", <<>>), fs |-> fs, log |-> <<>>]
    ELSE IF ruffPath \notin execs
    THEN [body |-> Error("formatter-unavailable", <<>>), fs |-> fs, log |-> <<>>]
    ELSE IF run.io = "write"
    THEN [body |-> Error("io-failure", <<>>), fs |-> fs, log |-> <<>>]
    ELSE FormatWith(fs, loc.v, DocumentText(fs, msg, loc.v), run)

\* handleFormatting(msg, writer, wsWriter, RUFF_PATH) (line 325): one
\* response or one error, with the request's id, is written to the client;
\* nothing is written to the backend.
HandleFormatting(c, msg) ==
    /\ \E loc \in {DocumentPath(msg)} :
       \E run \in ruffRuns :
       \E out \in {FormatDocument(content, msg, loc, RUFF_PATH, run)} :
           /\ WsWriterWrite(c, "local", Reply(msg.id, None, out.body))
           /\ content' = out.fs
           /\ files' = DOMAIN out.fs
           /\ log' = log \o [i \in 1..Len(out.log) |-> [c |-> c, line |-> out.log[i]]]
    /\ UNCHANGED toBackend

(***************************************************************************)
(* Startup: deployPyrightConfig and startPyrightBridge.                    *)
(***************************************************************************)
TemplatePath == PathJoin(Dirname, <<"pyrightconfig.json">>)
TargetPath == PathJoin(root, <<"pyrightconfig.json">>)

\* The template and a text that is not JSON.
Template == <<"{", "${BOT_ROOT}", " ", "${JESSE_ROOT}", "}">>
BrokenTemplate == <<"{", "${BOT_ROOT}">>

\* String.replace(/\$\{NAME\}/g, value): every occurrence is replaced.
RECURSIVE ReplaceAll(_, _, _)
ReplaceAll(t, name, value) ==
    IF t = <<>> THEN <<>>
    ELSE (IF Head(t) = name THEN value ELSE <<Head(t)>>)
         \o ReplaceAll(Tail(t), name, value)

\* JSON.stringify(JSON.parse(t), null, 2) on the texts here: a text whose
\* braces do not close does not parse ([ok |-> FALSE]: a thrown error);
\* the white space between the values is laid out again.
Reserialize(t) ==
    IF t = <<>> \/ Head(t) # "{" \/ t[Len(t)] # "}"
    THEN [ok |-> FALSE, v |-> <<>>]
    ELSE [ok |-> TRUE,
          v |-> ReplaceAll(SelectSeq(t, LAMBDA x : x # " "), "}", <<"\n", "}">>)]

\* deployPyrightConfig() (lines 205-229) on file system fs: [ok, fs].
\* Without a template nothing is written; a template that does not parse
\* throws.
DeployPyrightConfig(fs) ==
    IF TemplatePath \notin DOMAIN fs THEN [ok |-> TRUE, fs |-> fs]
    ELSE LET text == ReplaceAll(ReplaceAll(fs[TemplatePath], "${BOT_ROOT}", root),
                                "${JESSE_ROOT}",
                                IF JESSE_ROOT = None THEN <<>> ELSE JESSE_ROOT[1])
         IN  IF Reserialize(text).ok
             THEN [ok |-> TRUE, fs |-> WriteFileSync(fs, TargetPath, Reserialize(text).v)]
             ELSE [ok |-> FALSE, fs |-> fs]

Loading == [state |-> "loading", port |-> None, code |-> None]
Starting == [state |-> "starting", port |-> None, code |-> None]
Listening(port) == [state |-> "listening", port |-> Some(port), code |-> None]
Exited(code) == [state |-> "exited", port |-> None, code |-> Some(code)]

\* A check of the port alone.
MissingConfigPortOnly == Falsy(PYRIGHT_WS_PORT)

\* line 236
MissingConfig == Falsy(PYRIGHT_WS_PORT) \/ BOT_ROOT = None \/ JESSE_ROOT = None

\* A start that creates the server without deploying the configuration.
StartPyrightBridgeNoDeploy ==
    /\ service.state = "starting"
    /\ IF MissingConfig
       THEN /\ service' = Exited(1)
            /\ log' = Append(log, [c |-> 0, line |-> "Error: arguments are required"])
       ELSE /\ service' = Listening(PYRIGHT_WS_PORT.n)
            /\ UNCHANGED log
    /\ UNCHANGED <<envVars, busy, files, content, root, ws, proc, pid, nSpawn,
                   errPending, signals, closeFrames, wsIn, stdout, toBackend,
                   toClient, nMsgs>>

\* startPyrightBridge() up to the creation of the server (lines 233-248):
\* process.exit(1) on a missing argument; an error thrown by
\* deployPyrightConfig is not caught and ends the process with code 1.
StartPyrightBridge ==
    /\ service.state = "starting"
    /\ IF MissingConfig
       THEN /\ service' = Exited(1)
            /\ log' = Append(log, [c |-> 0, line |-> "Error: arguments are required"])
            /\ UNCHANGED <<files, content>>
       ELSE /\ content' = DeployPyrightConfig(content).fs
            /\ files' = DOMAIN DeployPyrightConfig(content).fs
            /\ service' = IF DeployPyrightConfig(content).ok
                          THEN Listening(PYRIGHT_WS_PORT.n) ELSE Exited(1)
            /\ UNCHANGED log
    /\ UNCHANGED <<envVars, busy, root, ws, proc, pid, nSpawn, errPending, signals,
                   closeFrames, wsIn, stdout, toBackend, toClient, nMsgs>>

\* The module is loaded (lines 197-200): parseArgs() reads the command
\* line, and the port and the two roots are taken from its result.
LoadModule ==
    /\ service.state = "loading"
    /\ \E parsed \in {ParseArgs(argv)} :
           /\ args' = ArgsRead(parsed)
           /\ root' = IF Lookup(parsed, KeyBotRoot) = None THEN <<>>
                      ELSE Lookup(parsed, KeyBotRoot)[1]
    /\ service' = Starting
    /\ UNCHANGED <<argv, ruffEnv, execs, ruffRuns, busy, log, files, content, ws, proc,
                   pid, nSpawn, errPending, signals, closeFrames, wsIn, stdout,
                   toBackend, toClient, nMsgs>>

(***************************************************************************)
(* The handlers and the environment's steps.                               *)
(***************************************************************************)
\* wss.on('connection') (lines 250-269)
OnConnection(c) ==
    /\ service.state = "listening"
    /\ ws[c] = "none"
    /\ \A d \in Conns : d < c => ws[d] # "none"
    /\ ws' = [ws EXCEPT ![c] = "open"]
    /\ \E ok \in BOOLEAN : Spawn(c, ok)
    /\ UNCHANGED <<envVars, busy, service, log, content, root, files,
                   signals, closeFrames, wsIn, stdout, toBackend,
                   toClient, nMsgs>>

\* The client sends msg: it waits in the socket for the 'message' event.
ClientSend(c, msg) ==
    /\ ws[c] \in {"open", "closing"}
    /\ nMsgs < MaxMsgs
    /\ nMsgs' = nMsgs + 1
    /\ wsIn' = [wsIn EXCEPT ![c] = Append(@, msg)]
    /\ UNCHANGED <<envVars, busy, service, log, content, root, files,
                   ws, proc, pid, nSpawn, errPending, signals,
                   closeFrames, stdout, toBackend, toClient>>

\* A callback that returns on a formatting request without handling it.
OnClientMessageDrop(c) ==
    /\ wsIn[c] # <<>>
    /\ Head(wsIn[c]) # MalformedFrame
    /\ wsIn' = [wsIn EXCEPT ![c] = Tail(@)]
    /\ \E msg \in {Intercept(Head(wsIn[c]))} :
           IF IsFormattingRequest(msg)
           THEN UNCHANGED <<toBackend, toClient, files, content, log>>
           ELSE WriterWrite(c, msg) /\ UNCHANGED <<toClient, files, content, log>>
    /\ UNCHANGED <<envVars, busy, service, root, ws, proc, pid, nSpawn, errPending,
                   signals, closeFrames, stdout, nMsgs>>

\* A callback with a timeout on the backend: a backend that was written to
\* and has answered nothing when the next message arrives is killed.
OnClientMessageReaping(c) ==
    /\ wsIn[c] # <<>>
    /\ Head(wsIn[c]) # MalformedFrame
    /\ wsIn' = [wsIn EXCEPT ![c] = Tail(@)]
    /\ \E msg \in {Intercept(Head(wsIn[c]))} :
           IF IsFormattingRequest(msg)
           THEN HandleFormatting(c, msg)
           ELSE WriterWrite(c, msg) /\ UNCHANGED <<toClient, files, content, log>>
    /\ IF toBackend[c] # <<>> /\ toClient[c] = <<>> /\ stdout[c] = <<>>
       THEN PyrightKill(c)
       ELSE UNCHANGED <<proc, signals>>
    /\ UNCHANGED <<envVars, busy, service, root, ws, pid, nSpawn, errPending,
                   closeFrames, stdout, nMsgs>>

\* A callback that diverts a formatting request before its location is
\* normalized.
OnClientMessageDivertFirst(c) ==
    /\ wsIn[c] # <<>>
    /\ Head(wsIn[c]) # MalformedFrame
    /\ wsIn' = [wsIn EXCEPT ![c] = Tail(@)]
    /\ \E msg \in {InjectInitialize(Head(wsIn[c]))} :
           IF IsFormattingRequest(msg)
           THEN HandleFormatting(c, msg)
           ELSE WriterWrite(c, NormalizeLocation(msg))
                /\ UNCHANGED <<toClient, files, content, log>>
    /\ UNCHANGED <<envVars, busy, service, root, ws, proc, pid, nSpawn, errPending,
                   signals, closeFrames, stdout, nMsgs>>

\* wsReader.listen callback (lines 272-330): the reader calls it with
\* every frame that parses.
OnClientMessage(c) ==
    /\ wsIn[c] # <<>>
    /\ Head(wsIn[c]) # MalformedFrame
    /\ wsIn' = [wsIn EXCEPT ![c] = Tail(@)]
    /\ \E msg \in {Intercept(Head(wsIn[c]))} :
           IF IsFormattingRequest(msg)
           THEN HandleFormatting(c, msg)
           ELSE WriterWrite(c, msg) /\ UNCHANGED <<toClient, files, content, log>>
    /\ UNCHANGED <<envVars, busy, service, root, ws, proc, pid, nSpawn, errPending,
                   signals, closeFrames, stdout, nMsgs>>

\* The backend writes a message to its stdout.
BackendEmit(c, msg) ==
    /\ proc[c] = "running"
    /\ nMsgs < MaxMsgs
    /\ nMsgs' = nMsgs + 1
    /\ stdout' = [stdout EXCEPT ![c] = Append(@, msg)]
    /\ UNCHANGED <<envVars, busy, service, log, content, root, files,
                   ws, proc, pid, nSpawn, errPending, signals,
                   closeFrames, wsIn, toBackend, toClient>>

\* A relay that passes responses on and drops notifications.
OnBackendMessageFiltered(c) ==
    /\ stdout[c] # <<>>
    /\ Head(stdout[c]) # MalformedOutput
    /\ stdout' = [stdout EXCEPT ![c] = Tail(@)]
    /\ IF Head(stdout[c]).id # None
       THEN WsWriterWrite(c, "backend", Head(stdout[c]))
       ELSE UNCHANGED toClient
    /\ UNCHANGED <<envVars, busy, service, log, content, root, files,
                   ws, proc, pid, nSpawn, errPending, signals,
                   closeFrames, wsIn, toBackend, nMsgs>>

\* reader.listen callback (lines 333-336): the reader calls it with every
\* message that parses.
OnBackendMessage(c) ==
    /\ stdout[c] # <<>>
    /\ Head(stdout[c]) # MalformedOutput
    /\ stdout' = [stdout EXCEPT ![c] = Tail(@)]
    /\ WsWriterWrite(c, "backend", Head(stdout[c]))
    /\ UNCHANGED <<envVars, busy, service, log, content, root, files,
                   ws, proc, pid, nSpawn, errPending, signals,
                   closeFrames, wsIn, toBackend, nMsgs>>

\* A reader whose parse error is thrown and ends the process.
OnClientFrameErrorFatal(c) ==
    /\ wsIn[c] # <<>>
    /\ Head(wsIn[c]) = MalformedFrame
    /\ wsIn' = [wsIn EXCEPT ![c] = Tail(@)]
    /\ service' = Exited(1)
    /\ UNCHANGED <<envVars, busy, log, content, root, files, ws, proc, pid, nSpawn,
                   errPending, signals, closeFrames, stdout, toBackend,
                   toClient, nMsgs>>

\* A client frame that does not parse: wsReader (line 266) fires its error
\* event, to which the bridge listens nowhere (lines 264-352 register no
\* onError), and the callback of line 272 is not called.
OnClientFrameError(c) ==
    /\ wsIn[c] # <<>>
    /\ Head(wsIn[c]) = MalformedFrame
    /\ wsIn' = [wsIn EXCEPT ![c] = Tail(@)]
    /\ UNCHANGED <<envVars, busy, service, log, content, root, files, ws, proc, pid,
                   nSpawn, errPending, signals, closeFrames, stdout, toBackend,
                   toClient, nMsgs>>

\* Backend output that does not parse: reader (line 264) fires its error
\* event, without a listener; the callback of line 333 is not called.
OnBackendFrameError(c) ==
    /\ stdout[c] # <<>>
    /\ Head(stdout[c]) = MalformedOutput
    /\ stdout' = [stdout EXCEPT ![c] = Tail(@)]
    /\ UNCHANGED <<envVars, busy, service, log, content, root, files, ws, proc, pid,
                   nSpawn, errPending, signals, closeFrames, wsIn, toBackend,
                   toClient, nMsgs>>

\* The backend exits by itself (a crash).  The bridge listens to no 'exit'
\* or 'close' event of the process and to no close of its streams (lines
\* 332-352 register 'error' and stderr 'data' only): no handler runs.
BackendExit(c) ==
    /\ proc[c] = "running"
    /\ proc' = [proc EXCEPT ![c] = "exited"]
    /\ UNCHANGED <<envVars, busy, service, log, content, root, files,
                   ws, pid, nSpawn, errPending, signals, closeFrames,
                   wsIn, stdout, toBackend, toClient, nMsgs>>

\* ws.on('close') (lines 339-342): the socket is CLOSED (the client went
\* away, or the closing handshake ended); no 'message' event follows.
OnWsClose(c) ==
    /\ ws[c] \in {"open", "closing"}
    /\ ws' = [ws EXCEPT ![c] = "closed"]
    /\ wsIn' = [wsIn EXCEPT ![c] = <<>>]
    /\ PyrightKill(c)
    /\ UNCHANGED <<envVars, busy, service, log, content, root, files,
                   pid, nSpawn, errPending, closeFrames, stdout,
                   toBackend, toClient, nMsgs>>

\* pyright.on('error') (lines 345-348)
OnPyrightError(c) ==
    /\ errPending[c]
    /\ errPending' = [errPending EXCEPT ![c] = FALSE]
    /\ WsClose(c)
    /\ log' = Append(log, [c |-> c, line |-> "Pyright process error"])
    /\ UNCHANGED <<envVars, busy, service, content, root, files, proc, pid, nSpawn,
                   signals, wsIn, stdout, toBackend, toClient, nMsgs>>

\* A handler that takes output on stderr for a failure of the backend.
OnPyrightStderrFatal(c) ==
    /\ proc[c] = "running"
    /\ nMsgs < MaxMsgs
    /\ nMsgs' = nMsgs + 1
    /\ log' = Append(log, [c |-> c, line |-> "Pyright stderr"])
    /\ WsClose(c)
    /\ UNCHANGED <<envVars, busy, service, content, root, files, proc, pid, nSpawn,
                   errPending, signals, wsIn, stdout, toBackend, toClient>>

\* pyright.stderr.on('data') (lines 350-352): the backend has written to
\* its stderr; the data is logged.
OnPyrightStderr(c) ==
    /\ proc[c] = "running"
    /\ nMsgs < MaxMsgs
    /\ nMsgs' = nMsgs + 1
    /\ log' = Append(log, [c |-> c, line |-> "Pyright stderr"])
    /\ UNCHANGED <<envVars, busy, service, content, root, files, ws, proc, pid,
                   nSpawn, errPending, signals, closeFrames, wsIn, stdout,
                   toBackend, toClient>>

\* The connections with a write of line 329 to the stdin of a process
\* that had gone: the promise of writer.write is rejected, and line 329
\* drops the promise.
RejectedWrites ==
    {c \in Conns : \E i \in 1..Len(toBackend[c]) : ~toBackend[c][i].live}

\* The rejection of a dropped promise is unhandled: the bundled runtime
\* (Node.js v20.11.0) raises it as an uncaught exception and the process
\* ends with code 1.  No handler runs: the sockets are dropped with what
\* they held, and the backends, their pipes gone, exit.
OnUnhandledRejection ==
    /\ service.state = "listening"
    /\ RejectedWrites # {}
    /\ service' = Exited(1)
    /\ ws' = [c \in Conns |-> IF ws[c] \in {"open", "closing"} THEN "closed" ELSE ws[c]]
    /\ proc' = [c \in Conns |-> IF proc[c] = "running" THEN "exited" ELSE proc[c]]
    /\ errPending' = [c \in Conns |-> FALSE]
    /\ wsIn' = [c \in Conns |-> <<>>]
    /\ stdout' = [c \in Conns |-> <<>>]
    /\ UNCHANGED <<envVars, busy, log, content, root, files, pid, nSpawn, signals,
                   closeFrames, toBackend, toClient, nMsgs>>

(***************************************************************************)
(* The specifications.                                                     *)
(***************************************************************************)
InitSession ==
    /\ ws = [c \in Conns |-> "none"]
    /\ proc = [c \in Conns |-> "none"]
    /\ pid = [c \in Conns |-> 0]
    /\ nSpawn = 0
    /\ errPending = [c \in Conns |-> FALSE]
    /\ signals = [c \in Conns |-> 0]
    /\ closeFrames = [c \in Conns |-> 0]
    /\ wsIn = [c \in Conns |-> <<>>]
    /\ stdout = [c \in Conns |-> <<>>]
    /\ toBackend = [c \in Conns |-> <<>>]
    /\ toClient = [c \in Conns |-> <<>>]
    /\ nMsgs = 0

\* The environment of Spec and SpecWide: the arguments are given, the
\* server listens, the bundled formatter is there and a run of it formats
\* the document or fails.
InitEnv ==
    /\ args = [port |-> Some(<<"9", "0", "1", "1">>), botRoot |-> Some(root),
               jesseRoot |-> Some(JesseRoot)]
    /\ argv = ArgvOf(args)
    /\ service = Listening(9011)
    /\ ruffEnv = None
    /\ execs = {BundledRuff}
    /\ ruffRuns = {RunOk(Formatted), RunFailed}
    /\ content = [f \in files |-> Unformatted]
    /\ log = <<>>
    /\ busy = 0

Init ==
    /\ root = RootApp
    /\ files = {FileInApp}
    /\ InitEnv
    /\ InitSession

Next ==
    \/ \E c \in Conns :
        \/ OnConnection(c)
        \/ \E msg \in ClientMsgs : ClientSend(c, msg)
        \/ OnClientMessage(c)
        \/ \E msg \in BackendMsgs : BackendEmit(c, msg)
        \/ OnBackendMessage(c)
        \/ BackendExit(c)
        \/ OnWsClose(c)
        \/ OnPyrightError(c)
    \/ OnUnhandledRejection

Spec == Init /\ [][Next]_vars

\* The interceptor on every input: connection 1 is accepted, its backend
\* runs, and one message of WideMsgs has arrived.
InitWide ==
    /\ root \in Roots
    /\ files \in FileSystems
    /\ InitEnv
    /\ ws = [c \in Conns |-> IF c = 1 THEN "open" ELSE "none"]
    /\ proc = [c \in Conns |-> IF c = 1 THEN "running" ELSE "none"]
    /\ pid = [c \in Conns |-> IF c = 1 THEN 1 ELSE 0]
    /\ nSpawn = 1
    /\ errPending = [c \in Conns |-> FALSE]
    /\ signals = [c \in Conns |-> 0]
    /\ closeFrames = [c \in Conns |-> 0]
    /\ \E msg \in WideMsgs : wsIn = [c \in Conns |-> IF c = 1 THEN <<msg>> ELSE <<>>]
    /\ stdout = [c \in Conns |-> <<>>]
    /\ toBackend = [c \in Conns |-> <<>>]
    /\ toClient = [c \in Conns |-> <<>>]
    /\ nMsgs = 1

NextWide == OnClientMessage(1)

SpecWide == InitWide /\ [][NextWide]_vars

\* The client sends the message it sent last once more, now with the
\* location the bridge made of it (the message as the backend got it).
ClientResend(c) ==
    /\ ws[c] \in {"open", "closing"}
    /\ nMsgs < MaxMsgs
    /\ wsIn[c] = <<>>
    /\ toBackend[c] # <<>>
    /\ nMsgs' = nMsgs + 1
    /\ wsIn' = [wsIn EXCEPT ![c] = <<toBackend[c][Len(toBackend[c])].msg>>]
    /\ UNCHANGED <<envVars, busy, service, log, content, root, files,
                   ws, proc, pid, nSpawn, errPending, signals,
                   closeFrames, stdout, toBackend, toClient>>

\* The interceptor on its own output: every message of WideMsgs is passed
\* through the interceptor and what the backend got is passed through it
\* again.
NextTwice == OnClientMessage(1) \/ ClientResend(1)

SpecTwice == InitWide /\ [][NextTwice]_vars

\* The formatting requests of SpecFormat: both methods; no location, the
\* document on disk (named by its URI and by a relative path), a document
\* that is not on disk, and a URI that does not resolve; with and without
\* inline text.
FormatLocs ==
    { FileScheme \o FileInApp,
      <<"s", "/", "a.py">>,
      FileScheme \o <<"/", "s", "/", "b.py">>,
      FileScheme \o <<"s", "/", "a.py">> }

FormatMsgs ==
    { Msg(Some(3), me, p, None) :
        me \in {"textDocument/formatting", "textDocument/rangeFormatting"},
        p \in {NoParams("absent")}
              \cup {DocParams(Some(l), o) : l \in FormatLocs, o \in {None, Some(<<"x">>)}} }

\* The runs of SpecFormat: the formatter leaves any text of Texts, or
\* fails; a file operation fails; the temporary directory stays.
FormatRuns ==
    {RunOk(t) : t \in Texts}
    \cup {RunFailed,
          [RunOk(Formatted) EXCEPT !.io = "write"],
          [RunOk(Formatted) EXCEPT !.io = "read"],
          [RunOk(Formatted) EXCEPT !.rmdir = FALSE],
          [RunFailed EXCEPT !.rmdir = FALSE]}

\* The formatting handler on every input: connection 1 is accepted, its
\* backend runs, and one request of FormatMsgs has arrived; the document
\* on disk is any text of Texts, the formatter is configured by the
\* environment or bundled, is there or not, and runs as one of FormatRuns.
InitFormat ==
    /\ root = RootApp
    /\ files = {FileInApp}
    /\ args = [port |-> Some(<<"9", "0", "1", "1">>), botRoot |-> Some(root),
               jesseRoot |-> Some(JesseRoot)]
    /\ argv = ArgvOf(args)
    /\ service = Listening(9011)
    /\ ruffEnv \in {None, Some(<<>>), Some(CustomRuff)}
    /\ execs \in {{BundledRuff}, {CustomRuff}}
    /\ \E run \in FormatRuns : ruffRuns = {run}
    /\ \E t \in Texts : content = [f \in files |-> t]
    /\ log = <<>>
    /\ busy = 0
    /\ ws = [c \in Conns |-> IF c = 1 THEN "open" ELSE "none"]
    /\ proc = [c \in Conns |-> IF c = 1 THEN "running" ELSE "none"]
    /\ pid = [c \in Conns |-> IF c = 1 THEN 1 ELSE 0]
    /\ nSpawn = 1
    /\ errPending = [c \in Conns |-> FALSE]
    /\ signals = [c \in Conns |-> 0]
    /\ closeFrames = [c \in Conns |-> 0]
    /\ \E msg \in FormatMsgs : wsIn = [c \in Conns |-> IF c = 1 THEN <<msg>> ELSE <<>>]
    /\ stdout = [c \in Conns |-> <<>>]
    /\ toBackend = [c \in Conns |-> <<>>]
    /\ toClient = [c \in Conns |-> <<>>]
    /\ nMsgs = 1

NextFormat == OnClientMessage(1)

SpecFormat == InitFormat /\ [][NextFormat]_vars

\* The frames of SpecService: a request and a frame that does not parse
\* from the client, a notification and output that does not parse from
\* the backend.
ServiceFrames ==
    { Msg(Some(2), "textDocument/hover",
          DocParams(Some(FileScheme \o FileInApp), None), None),
      MalformedFrame }

ServiceOutput ==
    { Reply(None, Some("textDocument/publishDiagnostics"), Opaque("diagnostics")),
      MalformedOutput }

\* The values of --port: not given, a port, zero, and no number.
PortArgs ==
    {None, Some(<<"9", "0", "1", "1">>), Some(<<"0">>), Some(<<"a", "b", "c">>)}

\* The service from its start: the process has parsed its arguments, any
\* of which may be missing, and has not yet called startPyrightBridge; the
\* template of pyrightconfig.json is absent, there, or broken.  An
\* undefined BOT_ROOT is the empty path.
InitService ==
    /\ args \in [port : PortArgs, botRoot : {None, Some(RootApp)},
                  jesseRoot : {None, Some(JesseRoot)}]
    /\ argv = ArgvOf(args)
    /\ root = IF args.botRoot = None THEN <<>> ELSE args.botRoot[1]
    /\ service = Starting
    /\ content \in { [f \in {FileInApp} |-> Unformatted],
                      [f \in {FileInApp, TemplatePath} |->
                           IF f = TemplatePath THEN Template ELSE Unformatted],
                      [f \in {FileInApp, TemplatePath} |->
                           IF f = TemplatePath THEN BrokenTemplate ELSE Unformatted] }
    /\ files = DOMAIN content
    /\ ruffEnv = None
    /\ execs = {BundledRuff}
    /\ ruffRuns = {RunOk(Formatted)}
    /\ log = <<>>
    /\ busy = 0
    /\ InitSession

NextService ==
    \/ StartPyrightBridge
    \/ \E c \in Conns :
        \/ OnConnection(c)
        \/ \E msg \in ServiceFrames : ClientSend(c, msg)
        \/ OnClientMessage(c)
        \/ OnClientFrameError(c)
        \/ \E msg \in ServiceOutput : BackendEmit(c, msg)
        \/ OnBackendMessage(c)
        \/ OnBackendFrameError(c)
        \/ BackendExit(c)
        \/ OnWsClose(c)
        \/ OnPyrightError(c)
        \/ OnPyrightStderr(c)
    \/ OnUnhandledRejection

SpecService == InitService /\ [][NextService]_vars

\* The command lines of SpecArgs: up to MaxArgs tokens of ArgTokens (the
\* flags --port and --bot-root, two values, the empty string and two
\* dashes alone), followed or not by the two roots.
MaxArgs == 5

ArgTokens ==
    {Flag(KeyPort), Flag(KeyBotRoot), <<"9", "0", "1", "1">>, <<"0">>, <<>>, <<"--">>}

ArgTails ==
    {<<>>, <<Flag(KeyBotRoot), RootApp, Flag(KeyJesseRoot), JesseRoot>>}

ArgLists ==
    {head \o tail : head \in UNION {[1..n -> ArgTokens] : n \in 0..MaxArgs},
                    tail \in ArgTails}

\* The process from its very start: the command line is any of ArgLists,
\* the module is not yet loaded, and the template of pyrightconfig.json is
\* there.
InitArgs ==
    /\ argv \in ArgLists
    /\ args = ArgsRead(<<>>)
    /\ root = <<>>
    /\ service = Loading
    /\ content = [f \in {FileInApp, TemplatePath} |->
                      IF f = TemplatePath THEN Template ELSE Unformatted]
    /\ files = DOMAIN content
    /\ ruffEnv = None
    /\ execs = {BundledRuff}
    /\ ruffRuns = {RunOk(Formatted)}
    /\ log = <<>>
    /\ busy = 0
    /\ InitSession

NextArgs == LoadModule \/ StartPyrightBridge

SpecArgs == InitArgs /\ [][NextArgs]_vars

(***************************************************************************)
(* The formatting handler with its duration.  handleFormatting (line 325)  *)
(* is called inside the wsReader.listen callback and waits for the         *)
(* formatter to exit before it returns; all callbacks of all connections   *)
(* are run by the one event loop of the process (the handlers of lines     *)
(* 250-352 are registered on objects of one process), one at a time and    *)
(* each to its end.  busy is the connection whose callback has called the  *)
(* handler and has not returned; the clients and the backends, which are   *)
(* other processes, go on meanwhile.                                       *)
(***************************************************************************)
\* A callback, run by the event loop when no other callback runs.
EventLoop(A) == busy = 0 /\ A

\* The callback of line 272 takes a formatting request and calls
\* handleFormatting, which starts the formatter and waits.
FormatBegin(c) ==
    /\ busy = 0
    /\ wsIn[c] # <<>>
    /\ Head(wsIn[c]) # MalformedFrame
    /\ IsFormattingRequest(Intercept(Head(wsIn[c])))
    /\ busy' = c
    /\ UNCHANGED <<envVars, service, log, root, files, content, ws, proc, pid,
                   nSpawn, errPending, signals, closeFrames, wsIn, stdout,
                   toBackend, toClient, nMsgs>>

\* The formatter has exited: the handler answers and returns, and so does
\* the callback (line 326).  The step is what is left of OnClientMessage.
FormatEnd(c) ==
    /\ busy = c
    /\ busy' = 0
    /\ wsIn' = [wsIn EXCEPT ![c] = Tail(@)]
    /\ \E msg \in {Intercept(Head(wsIn[c]))} : HandleFormatting(c, msg)
    /\ UNCHANGED <<envVars, service, root, ws, proc, pid, nSpawn, errPending,
                   signals, closeFrames, stdout, nMsgs>>

\* The callback of line 272 on a message that is not a formatting request.
Relay(c) ==
    /\ busy = 0
    /\ wsIn[c] # <<>>
    /\ ~IsFormattingRequest(Intercept(Head(wsIn[c])))
    /\ OnClientMessage(c)

\* The outbound and the inbound relay of connection c take a message.
Outbound(c) == Relay(c) \/ FormatBegin(c)
InboundRelay(c) == EventLoop(OnBackendMessage(c))

BlockingFrames ==
    { Msg(Some(2), "textDocument/hover",
          DocParams(Some(FileScheme \o FileInApp), None), None),
      Msg(Some(3), "textDocument/formatting",
          DocParams(Some(FileScheme \o FileInApp), None), None) }

BlockingOutput ==
    { Reply(None, Some("textDocument/publishDiagnostics"), Opaque("diagnostics")) }

NextBlocking ==
    \/ \E c \in Conns :
        \/ EventLoop(OnConnection(c))
        \/ \E msg \in BlockingFrames : ClientSend(c, msg)
        \/ Relay(c)
        \/ FormatBegin(c)
        \/ FormatEnd(c)
        \/ \E msg \in BlockingOutput : BackendEmit(c, msg)
        \/ InboundRelay(c)
        \/ BackendExit(c)
        \/ EventLoop(OnWsClose(c))
        \/ EventLoop(OnPyrightError(c))
    \/ EventLoop(OnUnhandledRejection)

SpecBlocking == Init /\ [][NextBlocking]_vars

(***************************************************************************)
(* The claims.                                                             *)
(***************************************************************************)
Accepted == {c \in Conns : ws[c] # "none"}

\* C1: the step in which a connection's close event fires (the socket
\* becomes closed in a service that goes on) kills that connection's
\* backend (a running process gets one signal and is killed), touches no
\* other connection's process, and a closed connection never has a
\* running backend.
C1_CloseKillsOwnBackend ==
    /\ [](\A c \in Conns : ws[c] = "closed" => proc[c] # "running")
    /\ [][\A c \in Conns :
            (ws[c] # "closed" /\ ws'[c] = "closed" /\ service' = service)
                => /\ proc[c] = "running"
                        => proc'[c] = "killed" /\ signals'[c] = signals[c] + 1
                   /\ \A d \in Conns \ {c} :
                          proc'[d] = proc[d] /\ signals'[d] = signals[d]]_vars

\* C1 witness: a connection closed and its backend killed while the other
\* connection's backend still runs.
C1_Witness ==
    \E c, d \in Conns :
        c # d /\ ws[c] = "closed" /\ proc[c] = "killed" /\ signals[c] = 1
              /\ proc[d] = "running" /\ ws[d] = "open"

\* C2: once the backend of a session has exited by itself and the bridge
\* has no event of that session left to handle, the session's connection
\* is closing or closed.
C2_CrashClosesConnection ==
    \A c \in Conns :
        (proc[c] = "exited" /\ stdout[c] = <<>> /\ wsIn[c] = <<>> /\ ~errPending[c])
            => ws[c] \in {"closing", "closed"}

\* C3: no step writes a message to the client connection of a session
\* whose backend has exited by itself.
C3_NoWriteAfterCrash ==
    [][\A c \in Conns : proc[c] = "exited" => toClient'[c] = toClient[c]]_vars

C5_OneBackendPerConnection ==
    /\ [](/\ nSpawn = Cardinality(Accepted)
          /\ \A c \in Conns : (c \in Accepted) <=> (pid[c] # 0)
          /\ \A c, d \in Accepted : c # d => pid[c] # pid[d])
    /\ [][\A c \in Conns : pid[c] # 0 => pid'[c] = pid[c]]_vars

\* C5 witness: two connections accepted, two processes.
C5_Witness == Accepted = Conns /\ nSpawn = 2 /\ pid[1] # pid[2]

(***************************************************************************)
(* The interceptor's claims.  Handles(c) is a step of the wsReader.listen  *)
(* callback of connection c, Forwards(c) one that writes to the backend.   *)
(***************************************************************************)
Handles(c) == wsIn[c] # <<>> /\ wsIn'[c] = Tail(wsIn[c]) /\ ws'[c] = ws[c]

Forwards(c) == Handles(c) /\ Len(toBackend'[c]) = Len(toBackend[c]) + 1

Received(c) == Head(wsIn[c])

Written(c) == toBackend'[c][Len(toBackend'[c])].msg

FormattingMethods == {"textDocument/formatting", "textDocument/rangeFormatting"}

\* The file URI of each execution root of Roots, written out.
RootUri ==
    IF root = RootApp
    THEN <<"file:", "/", "/", "/", "srv", "/", "app">>
    ELSE <<"file:", "/", "/", "/", "srv", "/", "my", "%", "20", "app">>

\* C6: every initialize message the callback handles is written to the
\* backend, with params.rootUri the file URI of the execution root and
\* params.workspaceFolders the one folder [uri: that URI, name: jesse-ai],
\* whatever params the client sent.
C6_InitializeInjection ==
    [][\A c \in Conns :
          (Handles(c) /\ Received(c).method = "initialize")
              => /\ Forwards(c)
                 /\ Written(c).method = "initialize"
                 /\ Written(c).params.kind = "object"
                 /\ Written(c).params.rootUri = Some(RootUri)
                 /\ Written(c).params.workspaceFolders
                        = Some(<<[uri |-> RootUri, name |-> "jesse-ai"]>>)]_vars

\* C6 witness: an initialize message went to the backend with the URI of
\* the root /srv/my app.
C6_Witness ==
    /\ root = RootSpace
    /\ toBackend[1] # <<>>
    /\ toBackend[1][1].msg.method = "initialize"
    /\ toBackend[1][1].msg.params.rootUri = Some(RootUri)

\* The location each location of RelativeLocs and FileUriLocs becomes when
\* its path is joined to the execution root, written out.
JoinedToRoot(l) ==
    CASE l = <<"a.py">> -> RootUri \o <<"/", "a.py">>
      [] l = <<"s", "/", "a.py">> -> RootUri \o <<"/", "s", "/", "a.py">>
      [] l = <<"..", "/", "a.py">> -> <<"file:", "/", "/", "/", "srv", "/", "a.py">>
      [] l = <<"s", "/", "my", " ", "f.py">>
            -> RootUri \o <<"/", "s", "/", "my", "%", "20", "f.py">>
      [] l = <<"/", "s", "/", "a.py">> -> RootUri \o <<"/", "s", "/", "a.py">>
      [] l = FileInApp -> RootUri \o <<"/", "srv", "/", "app", "/", "s", "/", "a.py">>
      [] l = <<"untitled:", "a.py">> -> RootUri \o <<"/", "untitled:", "a.py">>
      [] l = FileScheme \o <<"/", "s", "/", "a.py">> -> RootUri \o <<"/", "s", "/", "a.py">>
      [] l = FileScheme \o <<"/", "s", "/", "b.py">> -> RootUri \o <<"/", "s", "/", "b.py">>
      [] l = FileScheme \o FileInApp
            -> RootUri \o <<"/", "srv", "/", "app", "/", "s", "/", "a.py">>
      [] l = FileScheme \o <<"/", "s", "/", "my", "%", "20", "f.py">>
            -> RootUri \o <<"/", "s", "/", "my", "%", "20", "f.py">>
      [] l = FileScheme \o <<"/", "s", "/", "..", "/", "s", "/", "a.py">>
            -> RootUri \o <<"/", "s", "/", "a.py">>
      [] l = FileScheme \o <<"/", "srv", "/", "my", "%", "20", "app", "/", "s", "/", "a.py">>
            -> RootUri \o <<"/", "srv", "/", "my", "%", "20", "app", "/", "s", "/", "a.py">>

\* The file each location of FileUriLocs names, written out.
FileNamedBy(l) ==
    CASE l = FileScheme \o <<"/", "s", "/", "a.py">> -> FileAtTop
      [] l = FileScheme \o <<"/", "s", "/", "b.py">> -> <<"/", "s", "/", "b.py">>
      [] l = FileScheme \o FileInApp -> FileInApp
      [] l = FileScheme \o <<"/", "s", "/", "my", "%", "20", "f.py">>
            -> <<"/", "s", "/", "my", " ", "f.py">>
      [] l = FileScheme \o <<"/", "s", "/", "..", "/", "s", "/", "a.py">> -> FileAtTop
      [] l = FileScheme \o <<"/", "srv", "/", "my", "%", "20", "app", "/", "s", "/", "a.py">>
            -> FileInSpace

\* C7: a forwarded message's document location L is unchanged when L is an
\* absolute location (a file:// URI) of an existing file, and is the
\* absolute location of the join of the execution root and L when L is a
\* relative path (a location without the file:// scheme) or a file:// URI
\* of no existing file.
C7_LocationNormalization ==
    [][\A c \in Conns :
          (Forwards(c) /\ HasDocumentUri(Received(c))
             /\ Received(c).params.textDocument[1].uri[1] \in RelativeLocs \cup FileUriLocs)
              => LET l == Received(c).params.textDocument[1].uri[1]
                     out == Written(c).params.textDocument[1].uri
                 IN  IF l \in FileUriLocs /\ FileNamedBy(l) \in files
                     THEN out = Some(l)
                     ELSE out = Some(JoinedToRoot(l))]_vars

\* C7 witness: a file:// URI of an existing file, with dot segments, went
\* to the backend as it was.
C7_Witness ==
    /\ FileAtTop \in files
    /\ toBackend[1] # <<>>
    /\ toBackend[1][1].msg.params.textDocument
           = Some([uri |-> Some(FileScheme \o <<"/", "s", "/", "..", "/", "s", "/", "a.py">>),
                   version |-> Some(1)])

Frame(msg) ==
    [msg EXCEPT !.params =
         [kind |-> "object", rootUri |-> None, workspaceFolders |-> None,
          other |-> msg.params.other,
          textDocument |->
              IF msg.params.textDocument = None THEN None
              ELSE Some([uri |-> None,
                         version |-> msg.params.textDocument[1].version])]]

\* C9: every message that is not a formatting request is written to the
\* backend with its method, its id and every other field as received,
\* apart from params.rootUri, params.workspaceFolders and
\* params.textDocument.uri; params itself is made an object only for an
\* initialize message.
C9_ForwardFrame ==
    [][\A c \in Conns :
          (Handles(c) /\ Received(c).method \notin FormattingMethods)
              => /\ Forwards(c)
                 /\ Written(c).id = Received(c).id
                 /\ Written(c).method = Received(c).method
                 /\ Written(c).extra = Received(c).extra
                 /\ Frame(Written(c)) = Frame(Received(c))
                 /\ Received(c).method # "initialize"
                        => Written(c).params.kind = Received(c).params.kind
                 /\ (Written(c).params.textDocument # None
                       /\ Written(c).params.textDocument[1].uri = None)
                        => Received(c).params.textDocument[1].uri = None]_vars

\* C9 witness: an initialize message with an unknown top-level field, an
\* unknown params field and a document location went to the backend, its
\* location rewritten and the unknown fields kept.
C9_Witness ==
    /\ toBackend[1] # <<>>
    /\ toBackend[1][1].msg.method = "initialize"
    /\ toBackend[1][1].msg.id = Some(7)
    /\ toBackend[1][1].msg.extra = Some("x")
    /\ toBackend[1][1].msg.params.other = Some(<<"k">>)
    /\ toBackend[1][1].msg.params.textDocument
           = Some([uri |-> Some(RootUri \o <<"/", "s", "/", "b.py">>), version |-> Some(1)])

\* C10: the step in which the service takes a message from the backend's
\* stdout writes that very message, once, to the session's connection,
\* and a message of the backend is written to a connection in no other
\* step.
C10_InboundVerbatim ==
    [][\A c \in Conns :
          /\ (stdout[c] # <<>> /\ stdout'[c] = Tail(stdout[c]) /\ service' = service)
                => /\ Len(toClient'[c]) = Len(toClient[c]) + 1
                   /\ SubSeq(toClient'[c], 1, Len(toClient[c])) = toClient[c]
                   /\ toClient'[c][Len(toClient'[c])].src = "backend"
                   /\ toClient'[c][Len(toClient'[c])].msg = Head(stdout[c])
                   /\ \A d \in Conns \ {c} : toClient'[d] = toClient[d]
          /\ (toClient'[c] # toClient[c]
                /\ toClient'[c][Len(toClient'[c])].src = "backend")
                => stdout[c] # <<>> /\ stdout'[c] = Tail(stdout[c])]_vars

\* C10 witness: a notification and a response of one backend were both
\* delivered to its client.
C10_Witness ==
    \E c \in Conns :
        /\ Len(toClient[c]) = 2
        /\ \A i \in 1..2 : toClient[c][i].src = "backend" /\ toClient[c][i].delivered
        /\ toClient[c][1].msg.id = None
        /\ toClient[c][2].msg.id # None


(***************************************************************************)
(* The formatting handler's claims, under SpecFormat.  Diverts(c) is a     *)
(* step of the callback of connection c on a formatting request;           *)
(* Answer(c) is the last message written to the client in that step.       *)
(***************************************************************************)
Diverts(c) == Handles(c) /\ Received(c).method \in FormattingMethods

Answer(c) == toClient'[c][Len(toClient'[c])].msg

\* The configured formatter path, written out: the environment's
\* RUFF_PATH if it is set and not empty, else bin/ruff of the bundle.
ConfiguredFormatter ==
    IF ruffEnv # None /\ ruffEnv[1] # <<>>
    THEN ruffEnv[1]
    ELSE <<"/", "opt", "/", "bridge", "/", "bin", "/", "ruff">>

\* The request as received names a document location that resolves.
Located(msg) == HasDocumentUri(msg) /\ DocumentUri(msg) \notin MalformedLocs

RequestText(c) ==
    DocumentText(content, Intercept(Received(c)),
                 DocumentPath(Intercept(Received(c))).v)

\* Applying an edit to a text, as a client does.  Offset(t, pos) is the
\* number of characters before position pos: line l (from 0) starts after
\* the l-th terminator.
LineStart(t, l) ==
    IF l = 0 THEN 0
    ELSE CHOOSE i \in 1..Len(t) :
             t[i] = Newline /\ Cardinality({j \in 1..i : t[j] = Newline}) = l

Offset(t, pos) == LineStart(t, pos.line) + pos.character

ApplyEdit(t, e) ==
    SubSeq(t, 1, Offset(t, e.range.start))
    \o e.newText
    \o SubSeq(t, Offset(t, e.range.end) + 1, Len(t))

\* C13: when the handler answers a formatting request with a result, the
\* one edit of the result, applied to the original text T, yields exactly
\* the formatter's output T'.
C13_RoundTrip ==
    [][\A c \in Conns :
         (Diverts(c) /\ Answer(c).body.kind = "result")
            => \E run \in ruffRuns :
                   ApplyEdit(RequestText(c), Answer(c).body.edits[1]) = run.out]_vars

\* The end of the last content line of text t, counted on the text itself:
\* with a trailing terminator, the line before it (as many lines before it
\* as there are other terminators, as long as the run of characters that
\* the terminator ends); without, the last line.
TerminatorsIn(t) == Cardinality({i \in 1..Len(t) : t[i] = Newline})

LengthOfLineEndingAt(t, k) ==
    Cardinality({i \in 1..k : \A j \in i..k : t[j] # Newline})

LastContentEnd(t) ==
    IF t # <<>> /\ t[Len(t)] = Newline
    THEN [line |-> TerminatorsIn(t) - 1,
          character |-> LengthOfLineEndingAt(t, Len(t) - 1)]
    ELSE [line |-> TerminatorsIn(t),
          character |-> LengthOfLineEndingAt(t, Len(t))]

\* C14: the result of a formatting request has one edit, whose range
\* starts at (0, 0) and ends at the end of the original text's last content
\* line: the line before a trailing terminator, else the last line.
C14_EditRange ==
    [][\A c \in Conns :
         (Diverts(c) /\ Answer(c).body.kind = "result")
            => /\ Len(Answer(c).body.edits) = 1
               /\ Answer(c).body.edits[1].range.start = [line |-> 0, character |-> 0]
               /\ Answer(c).body.edits[1].range.end = LastContentEnd(RequestText(c))]_vars

\* C14 witness: the document on disk has three lines and ends with a
\* terminator; the edit of the answer ends at line 2, not at the empty
\* line 3.
C14_Witness ==
    /\ content[FileInApp] = <<"\n", "\n", "\n">>
    /\ Len(toClient[1]) = 1
    /\ toClient[1][1].msg.body.kind = "result"
    /\ toClient[1][1].msg.body.edits[1].range.end = [line |-> 2, character |-> 0]

\* The temporary file was written in the step: the request reached the
\* formatter (a location that resolves, a formatter that is there) and the
\* write of the temporary file did not fail.
WroteTmpFile(c) ==
    /\ Diverts(c)
    /\ Located(Received(c))
    /\ ConfiguredFormatter \in execs
    /\ \E run \in ruffRuns : run.io # "write"

\* The answer to a request that reached the formatter, for the original
\* text t and the run: it does not depend on run.rmdir.
AnswerOf(t, run) ==
    IF run.exit # 0
    THEN [kind |-> "error", code |-> "formatting-failed", message |-> run.stderr,
          edits |-> <<>>]
    ELSE IF run.io = "read"
    THEN [kind |-> "error", code |-> "io-failure", message |-> <<>>, edits |-> <<>>]
    ELSE [kind |-> "result", code |-> "", message |-> <<>>,
          edits |-> <<[range |-> [start |-> [line |-> 0, character |-> 0],
                                  end |-> LastContentEnd(t)],
                       newText |-> run.out]>>]

\* C15: the temporary file exists in no state, so it is deleted within the
\* step of the handler that wrote it, whether the request succeeds, the
\* formatter exits with an error or the file is not read back; when the
\* temporary directory is not removed, one line is logged and the answer
\* is the one the run's exit code, output and error output determine.
C15_TmpFileDeleted ==
    /\ [](TmpFile \notin files /\ TmpFile \notin DOMAIN content)
    /\ [][\A c \in Conns :
            WroteTmpFile(c)
               => \E run \in ruffRuns :
                    /\ files' = files
                    /\ Answer(c).body = AnswerOf(RequestText(c), run)
                    /\ log' = IF run.rmdir THEN log
                              ELSE Append(log, [c |-> c, line |-> "tmpdir not removed"])]_vars

\* C15 witness: the formatter exited with an error and the temporary
\* directory was not removed: the request is answered 'formatting failed',
\* the failure to remove is logged, and the temporary file is gone.
C15_Witness ==
    /\ Len(toClient[1]) = 1
    /\ toClient[1][1].msg.body.code = "formatting-failed"
    /\ log = <<[c |-> 1, line |-> "tmpdir not removed"]>>
    /\ TmpFile \notin files

\* C16: a formatting request changes no file on disk, whatever its outcome
\* (the formatter works on the temporary copy); and when the formatter
\* exits with a non-zero code, the answer is a 'formatting failed' error
\* with the request's id and the formatter's error output, and nothing is
\* written to the backend.
C16_FormatterFailure ==
    [][\A c \in Conns :
         /\ Diverts(c) => content' = content /\ files' = files
         /\ (WroteTmpFile(c) /\ \A run \in ruffRuns : run.exit # 0)
               => \E run \in ruffRuns :
                    /\ Answer(c).id = Received(c).id
                    /\ Answer(c).body.kind = "error"
                    /\ Answer(c).body.code = "formatting-failed"
                    /\ Answer(c).body.message = run.stderr
                    /\ toBackend' = toBackend]_vars

\* C16 witness: the formatter exited with code 1 and error output on a
\* request for the document on disk; the request was answered with that
\* output and the document is as it was.
C16_Witness ==
    /\ ruffRuns = {RunFailed}
    /\ Len(toClient[1]) = 1
    /\ toClient[1][1].msg.body.code = "formatting-failed"
    /\ toClient[1][1].msg.body.message = <<"E501">>
    /\ content[FileInApp] = <<"x", "\n", "x">>

(***************************************************************************)
(* The service's claims, under SpecService.                                *)
(***************************************************************************)
NothingAccepted ==
    /\ \A c \in Conns : ws[c] = "none" /\ proc[c] = "none"
    /\ nSpawn = 0

\* One of the three required arguments is not given.
ArgumentMissing == args.port = None \/ args.botRoot = None \/ args.jesseRoot = None

\* C17: when --port, --bot-root or --jesse-root is missing, the only step
\* of the service is the exit of startPyrightBridge with code 1, which
\* writes no file; the server never listens, no connection is ever
\* accepted and no backend is ever spawned.
C17_MissingConfigFatal ==
    /\ [](ArgumentMissing => service.state # "listening" /\ NothingAccepted)
    /\ [][ArgumentMissing
            => /\ service.state = "starting"
               /\ service' = [state |-> "exited", port |-> None, code |-> Some(1)]
               /\ files' = files]_vars

\* C17 witness: --port and --jesse-root are given, --bot-root is not: the
\* process has exited with code 1 and nothing was accepted.
C17_Witness ==
    /\ args.port # None
    /\ args.botRoot = None
    /\ args.jesseRoot # None
    /\ service.state = "exited"
    /\ service.code = Some(1)
    /\ NothingAccepted

\* --port is not given and the other two arguments are.
PortOmitted == args.port = None /\ args.botRoot # None /\ args.jesseRoot # None

Session(d) ==
    <<ws[d], proc[d], pid[d], errPending[d], signals[d], closeFrames[d],
      wsIn[d], stdout[d], toBackend[d], toClient[d]>>

\* A transport error on connection c in this step: its socket becomes
\* closed for another reason than the end of the process, or a frame of
\* its client, or output of its backend, that does not parse is taken off.
SocketCloses(c) ==
    ws[c] \in {"open", "closing"} /\ ws'[c] = "closed" /\ ~OnUnhandledRejection

FrameFails(c) ==
    \/ /\ wsIn[c] # <<>>
       /\ Head(wsIn[c]) = MalformedFrame
       /\ wsIn'[c] = Tail(wsIn[c])
       /\ ws'[c] = ws[c]
    \/ /\ stdout[c] # <<>>
       /\ Head(stdout[c]) = MalformedOutput
       /\ stdout'[c] = Tail(stdout[c])
       /\ ~OnUnhandledRejection

C20_SpawnFailureClosesConnection ==
    /\ [](\A c \in Conns :
              proc[c] = "spawnfail"
                 => /\ errPending[c] \/ ws[c] \in {"closing", "closed"}
                    /\ service.state = "listening"
                    /\ \A d \in Conns : (d = c + 1 /\ ws[d] = "none") => ENABLED OnConnection(d))
    /\ [][\A c \in Conns :
            (proc[c] = "spawnfail" /\ errPending[c] /\ ~errPending'[c])
               => /\ ws'[c] \in {"closing", "closed"}
                  /\ ws[c] = "open" => closeFrames'[c] = closeFrames[c] + 1
                  /\ log' = Append(log, [c |-> c, line |-> "Pyright process error"])
                  /\ service' = service
                  /\ \A d \in Conns \ {c} : Session(d)' = Session(d)]_vars

(***************************************************************************)
(* The sessions' claims.  Inbound(c) is a step of the reader.listen        *)
(* callback of connection c.                                               *)
(***************************************************************************)
Inbound(c) == stdout[c] # <<>> /\ stdout'[c] = Tail(stdout[c]) /\ service' = service

\* new is old with one element more at its end.
Appended(new, old) == Len(new) = Len(old) + 1 /\ SubSeq(new, 1, Len(old)) = old

\* C21: the step that handles a message received on connection c writes
\* it to c's backend or answers it on c, and the step that takes a message
\* of c's backend writes it to c; either leaves the session of every other
\* connection as it was, and the writes of a connection change in no step
\* of another connection.
C21_NoCrossConnectionState ==
    [][\A c \in Conns :
          /\ Handles(c)
                => /\ \A d \in Conns \ {c} : Session(d)' = Session(d)
                   /\ \/ Appended(toBackend'[c], toBackend[c]) /\ toClient'[c] = toClient[c]
                      \/ Appended(toClient'[c], toClient[c]) /\ toBackend'[c] = toBackend[c]
          /\ Inbound(c)
                => /\ \A d \in Conns \ {c} : Session(d)' = Session(d)
                   /\ Appended(toClient'[c], toClient[c])
                   /\ toClient'[c][Len(toClient'[c])].msg = Head(stdout[c])
                   /\ toBackend'[c] = toBackend[c]
          /\ toBackend'[c] # toBackend[c] => Handles(c)
          /\ toClient'[c] # toClient[c] => Handles(c) \/ Inbound(c)]_vars

\* C21 witness: two sessions at once; each backend was written the message
\* of its own client (connection 1 a hover request, connection 2 an
\* initialize request), and the response of backend 1 went to connection 1
\* while nothing was written to connection 2.
C21_Witness ==
    /\ Len(toBackend[1]) = 1 /\ toBackend[1][1].msg.method = "textDocument/hover"
    /\ Len(toBackend[2]) = 1 /\ toBackend[2][1].msg.method = "initialize"
    /\ ws[1] = "open" /\ ws[2] = "open"
    /\ toClient[2] = <<>>
    /\ Len(toClient[1]) = 1 /\ toClient[1][1].src = "backend"

\* C22: while the formatting handler runs for connection c, the relays of
\* every other connection can take the messages that wait for them: the
\* outbound relay of d a message of d's client, the inbound relay of d a
\* message of d's backend.
C22_FormattingBlocksOnlyItsConnection ==
    \A c, d \in Conns :
        (busy = c /\ d # c)
            => /\ wsIn[d] # <<>> => ENABLED Outbound(d)
               /\ stdout[d] # <<>> => ENABLED InboundRelay(d)

\* The locations of RelativeLocs and FileUriLocs whose path, joined to
\* either execution root of Roots, is a file of the non-empty file systems
\* of FileSystems.
ResolvesToExisting(l) ==
    /\ files # {}
    /\ l \in { <<"s", "/", "a.py">>,
               <<"/", "s", "/", "a.py">>,
               FileScheme \o <<"/", "s", "/", "a.py">>,
               FileScheme \o <<"/", "s", "/", "..", "/", "s", "/", "a.py">> }

\* A location that is rewritten (a relative path, or a file:// URI of no
\* existing file) and whose path, resolved against the execution root,
\* is no existing file either.
Unresolved(l) ==
    /\ l \in RelativeLocs \cup FileUriLocs
    /\ ~(l \in FileUriLocs /\ FileNamedBy(l) \in files)
    /\ ~ResolvesToExisting(l)

\* C23: a forwarded message whose document location, resolved against the
\* execution root, still names no existing file is written to the backend
\* with the location the client supplied.
C23_UnresolvedForwardedUnchanged ==
    [][\A c \in Conns :
          (Forwards(c) /\ HasDocumentUri(Received(c))
             /\ Unresolved(Received(c).params.textDocument[1].uri[1]))
              => Written(c).params.textDocument[1].uri
                     = Received(c).params.textDocument[1].uri]_vars

\* C23 (amended): such a message is written to the backend with the
\* location resolved against the execution root, which differs from the
\* client's: the result of the join is not checked for existence.
C23_UnresolvedForwardedJoined ==
    [][\A c \in Conns :
          (Forwards(c) /\ HasDocumentUri(Received(c))
             /\ Unresolved(Received(c).params.textDocument[1].uri[1]))
              => /\ Written(c).params.textDocument[1].uri
                        = Some(JoinedToRoot(Received(c).params.textDocument[1].uri[1]))
                 /\ Written(c).params.textDocument[1].uri
                        # Received(c).params.textDocument[1].uri]_vars

\* C23 witness: with no file on disk, a hover request for file:///s/b.py
\* went to the backend with the location file:///srv/app/s/b.py.
C23_Witness ==
    /\ files = {}
    /\ root = RootApp
    /\ toBackend[1] # <<>>
    /\ toBackend[1][1].msg.method = "textDocument/hover"
    /\ toBackend[1][1].msg.params.textDocument
           = Some([uri |-> Some(FileScheme \o <<"/", "srv", "/", "app", "/", "s", "/", "b.py">>),
                   version |-> Some(1)])

\* The location each location of MalformedLocs becomes when what follows
\* its scheme is joined, as a relative path, to the execution root and
\* encoded anew, written out.
MalformedJoined(l) ==
    CASE l = FileScheme \o <<"s", "/", "a.py">> -> RootUri \o <<"/", "s", "/", "a.py">>
      [] l = FileScheme \o <<"/", "s", "%", "2F", "a.py">>
            -> RootUri \o <<"/", "s", "%", "25", "2F", "a.py">>
      [] l = FileScheme \o <<"/", "s", "/", "a", "%", "zz">>
            -> RootUri \o <<"/", "s", "/", "a", "%", "25", "zz">>

\* C24: the callback handles a message whose document location is a
\* malformed file:// URI (a host, an encoded slash, a broken percent
\* escape) like any other: the session and the service stay as they were,
\* a message that is no formatting request is written to the backend with
\* the location joined to the execution root, and a formatting request is
\* answered locally with its id and not written to the backend.
C24_MalformedLocationHandled ==
    [][\A c \in Conns :
          (Handles(c) /\ HasDocumentUri(Received(c))
             /\ Received(c).params.textDocument[1].uri[1] \in MalformedLocs)
              => /\ ws'[c] = ws[c] /\ proc'[c] = proc[c] /\ service' = service
                 /\ IF Received(c).method \in FormattingMethods
                    THEN /\ toBackend'[c] = toBackend[c]
                         /\ Appended(toClient'[c], toClient[c])
                         /\ toClient'[c][Len(toClient'[c])].src = "local"
                         /\ toClient'[c][Len(toClient'[c])].msg.id = Received(c).id
                    ELSE /\ Forwards(c)
                         /\ toClient'[c] = toClient[c]
                         /\ Written(c).method = Received(c).method
                         /\ Written(c).params.textDocument[1].uri
                                = Some(MalformedJoined(Received(c).params.textDocument[1].uri[1]))]_vars

\* C24 witness: a didOpen notification whose location has an encoded slash
\* went to the backend with the location joined to the root /srv/my app.
C24_Witness ==
    /\ root = RootSpace
    /\ toBackend[1] # <<>>
    /\ toBackend[1][1].msg.method = "textDocument/didOpen"
    /\ toBackend[1][1].msg.params.textDocument
           = Some([uri |-> Some(RootUri \o <<"/", "s", "%", "25", "2F", "a.py">>),
                   version |-> Some(1)])

\* A step of the stderr handler of connection c: its line is logged.
LogsStderr(c) == log' = Append(log, [c |-> c, line |-> "Pyright stderr"])

\* C25: the step in which output on the stderr of c's backend is handled
\* logs it and changes nothing else: the session of c (socket, process,
\* signals, close frames, messages waiting and written), the session of
\* every other connection and the service are as they were.
C25_StderrOnlyLogged ==
    [][\A c \in Conns :
          LogsStderr(c)
              => /\ \A d \in Conns : Session(d)' = Session(d)
                 /\ service' = service
                 /\ files' = files /\ content' = content]_vars

\* C25 witness: the backend of connection 1 wrote to its stderr, which was
\* logged; its connection is open, the process runs, and a message of the
\* client was relayed to it.
C25_Witness ==
    /\ log = <<[c |-> 1, line |-> "Pyright stderr"]>>
    /\ ws[1] = "open"
    /\ proc[1] = "running"
    /\ signals[1] = 0
    /\ closeFrames[1] = 0
    /\ Len(toBackend[1]) = 1
    /\ toBackend[1][1].live

\* pyrightconfig.json as it is deployed for the roots /srv/app and
\* /srv/jesse, written out.
DeployedConfig ==
    <<"{", "/", "srv", "/", "app", "/", "srv", "/", "jesse", "\n", "}">>

DeployedPath == <<"/", "srv", "/", "app", "/", "pyrightconfig.json">>

\* C26: before startPyrightBridge has run there is neither a deployed
\* pyrightconfig.json nor a connection; a start that fails the argument
\* check deploys nothing; and whenever the server listens, or a connection
\* was accepted, the deployment has run: with a template in the bundle,
\* pyrightconfig.json is in the bot root with the roots filled in.
C26_DeployedBeforeListening ==
    /\ service.state = "starting"
          => DeployedPath \notin files /\ Accepted = {} /\ nSpawn = 0
    /\ (args.port \in {None, Some(<<"0">>), Some(<<"a", "b", "c">>)}
          \/ args.botRoot = None \/ args.jesseRoot = None)
          => DeployedPath \notin files /\ service.state # "listening"
    /\ (service.state = "listening" \/ Accepted # {} \/ nSpawn > 0)
          => /\ TemplatePath \in files
                   => DeployedPath \in files /\ content[DeployedPath] = DeployedConfig
             /\ TemplatePath \notin files => DeployedPath \notin files

\* C26 witness: the configuration is deployed, the server listens, and a
\* connection was accepted and has its backend.
C26_Witness ==
    /\ service.state = "listening"
    /\ DeployedPath \in files
    /\ content[DeployedPath] = DeployedConfig
    /\ ws[1] = "open"
    /\ proc[1] = "running"

\* The normalized location of l names a file on disk: l is a file:// URI
\* of an existing file, or its path joined to the execution root is one.
SeesFile(l) == (l \in FileUriLocs /\ FileNamedBy(l) \in files) \/ ResolvesToExisting(l)

\* The end of the range that replaces the whole of the text on disk
\* (Unformatted: "x" and an empty line), and of the text a request carries
\* inline ("k", or none).
EndOnDisk == [line |-> 1, character |-> 0]
EndInline(msg) ==
    IF msg.params.other = None THEN [line |-> 0, character |-> 0]
    ELSE [line |-> 0, character |-> Len(msg.params.other[1])]

\* C27: both rewrites are done when a message is forwarded or diverted.
\* A forwarded message has the normalized location, and an initialize
\* message the root as well; a diverted formatting request is answered
\* for the normalized location: when that names a file on disk the edit
\* replaces the text of the file, and else the text sent inline.
C27_RewritesBeforeForwardOrDivert ==
    [][\A c \in Conns :
          (Handles(c) /\ HasDocumentUri(Received(c))
             /\ Received(c).params.textDocument[1].uri[1] \in RelativeLocs \cup FileUriLocs)
              => LET l == Received(c).params.textDocument[1].uri[1]
                     answer == toClient'[c][Len(toClient'[c])].msg
                 IN  IF Received(c).method \in FormattingMethods
                     THEN /\ toBackend'[c] = toBackend[c]
                          /\ Appended(toClient'[c], toClient[c])
                          /\ answer.body.kind = "result"
                                => /\ Len(answer.body.edits) = 1
                                   /\ answer.body.edits[1].range.end
                                          = IF SeesFile(l) THEN EndOnDisk
                                            ELSE EndInline(Received(c))
                     ELSE /\ Forwards(c)
                          /\ Written(c).params.textDocument[1].uri
                                 = IF l \in FileUriLocs /\ FileNamedBy(l) \in files
                                   THEN Some(l) ELSE Some(JoinedToRoot(l))
                          /\ Received(c).method = "initialize"
                                 => Written(c).params.rootUri = Some(RootUri)]_vars

\* C27 witness: the range-formatting request with id 4, whose location is
\* the relative path s/a.py and which carries the text "k", was answered
\* with an edit that replaces the text of /srv/app/s/a.py.
C27_Witness ==
    \E c \in Conns :
        /\ Len(toClient[c]) = 1
        /\ toClient[c][1].src = "local"
        /\ toClient[c][1].msg.id = Some(4)
        /\ toClient[c][1].msg.body.kind = "result"
        /\ toClient[c][1].msg.body.edits[1].range.end = EndOnDisk
        /\ toBackend[c] = <<>>

\* C28: a backend is killed only by the close of its own connection: a
\* killed backend's connection is closed, a backend has no signal while
\* its connection is open or closing, and the step that signals a backend
\* or kills it is the step in which its connection, open or closing until
\* then, becomes closed in a service that goes on.
C28_KillOnlyOnClose ==
    /\ [](\A c \in Conns :
            /\ proc[c] = "killed" => ws[c] = "closed"
            /\ ws[c] \in {"open", "closing"} => signals[c] = 0)
    /\ [][\A c \in Conns :
            (signals'[c] # signals[c] \/ (proc[c] # "killed" /\ proc'[c] = "killed"))
                => /\ ws[c] \in {"open", "closing"}
                   /\ ws'[c] = "closed"
                   /\ proc[c] = "running"
                   /\ service' = service]_vars

\* C28 witness: the backend of connection 1 hangs (it was written to and
\* has answered nothing) and runs unsignalled on its open connection,
\* while the backend of connection 2 was killed at the close of 2.
C28_Witness ==
    /\ ws[1] = "open" /\ proc[1] = "running" /\ signals[1] = 0
    /\ Len(toBackend[1]) = 2 /\ toClient[1] = <<>> /\ stdout[1] = <<>>
    /\ ws[2] = "closed" /\ proc[2] = "killed" /\ signals[2] = 1

\* C29: the messages are taken in the order received and written in the
\* order taken.  The step that takes a message of connection c takes the
\* oldest one in flight; if it is no formatting request the step puts it,
\* once, behind the messages already written to c's backend, with its id,
\* method and every field the interceptor does not rewrite, and if it is
\* one the step writes nothing to the backend; and no other step changes
\* what was written to c's backend.
C29_OutboundRelayExact ==
    [][\A c \in Conns :
          /\ (Handles(c) /\ Received(c) # MalformedFrame)
                => IF Received(c).method \in FormattingMethods
                   THEN toBackend'[c] = toBackend[c]
                   ELSE /\ Appended(toBackend'[c], toBackend[c])
                        /\ Written(c).id = Received(c).id
                        /\ Written(c).method = Received(c).method
                        /\ Frame(Written(c)) = Frame(Received(c))
          /\ toBackend'[c] # toBackend[c]
                => /\ Handles(c)
                   /\ Received(c).method \notin FormattingMethods
          /\ (wsIn'[c] # wsIn[c] /\ ws'[c] = ws[c])
                => \/ wsIn[c] # <<>> /\ wsIn'[c] = Tail(wsIn[c])
                   \/ Appended(wsIn'[c], wsIn[c])]_vars

\* C29 witness: connection c received initialize, a formatting request and
\* hover; the formatting request was answered locally and the two others
\* are what was written to the backend, initialize before hover.
C29_Witness ==
    \E c \in Conns :
        /\ wsIn[c] = <<>>
        /\ Len(toBackend[c]) = 2
        /\ toBackend[c][1].msg.id = Some(1) /\ toBackend[c][1].live
        /\ toBackend[c][2].msg.id = Some(2) /\ toBackend[c][2].live
        /\ Len(toClient[c]) = 1
        /\ toClient[c][1].src = "local"
        /\ toClient[c][1].msg.id = Some(3)

\* C30: every message written to a backend's input stream was written
\* while that backend's process ran.
C30_NoWriteToTerminatedBackend ==
    \A c \in Conns : \A i \in DOMAIN toBackend[c] : toBackend[c][i].live

Renormalizes(c) ==
    /\ toBackend[c] # <<>>
    /\ Forwards(c)
    /\ Received(c) = toBackend[c][Len(toBackend[c])].msg
    /\ HasDocumentUri(Received(c))

\* The file:// URI of each file of FileSystems, written out.
UriOfFile(f) ==
    CASE f = FileInApp -> <<"file:", "/", "/", "/", "srv", "/", "app", "/", "s", "/", "a.py">>
      [] f = FileInSpace
            -> <<"file:", "/", "/", "/", "srv", "/", "my", "%", "20", "app", "/", "s", "/", "a.py">>
      [] f = FileAtTop -> <<"file:", "/", "/", "/", "s", "/", "a.py">>

\* The location names a file that is on disk.
NamesExisting(l) ==
    \/ l \in FileUriLocs /\ FileNamedBy(l) \in files
    \/ \E f \in files : l = UriOfFile(f)

\* C32: a message that is the interceptor's own output goes through the
\* interceptor a second time with its document location unchanged.
C32_NormalizationIdempotent ==
    [][\A c \in Conns :
          Renormalizes(c)
              => Written(c).params.textDocument[1].uri
                     = Received(c).params.textDocument[1].uri]_vars

\* C32 (amended): the second pass leaves the location unchanged when it
\* names a file on disk; when it names none, the second pass joins its
\* path to the execution root once more and the location changes.
C32_IdempotentOnExisting ==
    [][\A c \in Conns :
          Renormalizes(c)
              => LET l == Received(c).params.textDocument[1].uri[1]
                     out == Written(c).params.textDocument[1].uri
                 IN  IF NamesExisting(l)
                     THEN out = Some(l)
                     ELSE /\ out = Some(RootUri \o SubSeq(l, Len(FileScheme) + 1, Len(l)))
                          /\ out # Some(l)]_vars

\* C32 witness: with the root /srv/my app and its file on disk, the
\* location file:///srv/my%20app/s/a.py went to the backend twice, the
\* second time as the first had left it.
C32_Witness ==
    /\ root = RootSpace
    /\ FileInSpace \in files
    /\ Len(toBackend[1]) = 2
    /\ toBackend[1][1].msg.params.textDocument
           = Some([uri |-> Some(UriOfFile(FileInSpace)), version |-> Some(1)])
    /\ toBackend[1][2] = toBackend[1][1]

\* The flag at index i of the argument list a has a value: the next token
\* is there, is not empty and does not start with "--".
Valued(a, i) ==
    /\ i < Len(a)
    /\ a[i][1] = "--"
    /\ a[i + 1] # <<>>
    /\ a[i + 1][1] # "--"

IsFlag(tok) == tok # <<>> /\ tok[1] = "--"

\* The indices of a at which the flag of key has a value.
ValuedAt(a, key) ==
    {i \in 1..Len(a) : IsFlag(a[i]) /\ Tail(a[i]) = key /\ Valued(a, i)}

\* The greatest element of a non-empty set of numbers.
Last(S) == CHOOSE i \in S : \A j \in S : j <= i

\* The value of key in the result for a: that of its last valued flag.
Given(a, key) ==
    IF ValuedAt(a, key) = {} THEN None ELSE Some(a[Last(ValuedAt(a, key)) + 1])

\* The keys the flags of a name.
KeysOf(a) == {Tail(a[i]) : i \in {j \in 1..Len(a) : IsFlag(a[j])}}

\* C33: the result of parseArgs for the command line has a key exactly
\* when some flag of that key is followed at once by a token that is not
\* empty and does not start with "--", and its value is the token after
\* the last such flag; once the module is loaded the port and the roots
\* are those values, and a start with one of them not given ends the
\* process with code 1.
C33_ParseArgs ==
    /\ DOMAIN ParseArgs(argv) = {k \in KeysOf(argv) : ValuedAt(argv, k) # {}}
    /\ \A k \in KeysOf(argv) : Lookup(ParseArgs(argv), k) = Given(argv, k)
    /\ service.state # "loading"
          => /\ args.port = Given(argv, KeyPort)
             /\ args.botRoot = Given(argv, KeyBotRoot)
             /\ args.jesseRoot = Given(argv, KeyJesseRoot)
    /\ (service.state \notin {"loading", "starting"}
          /\ \E k \in {KeyPort, KeyBotRoot, KeyJesseRoot} : Given(argv, k) = None)
          => service.state = "exited" /\ service.code = Some(1)

\* C33 witness: the command line --port 0 --port 9011 --port --bot-root
\* /srv/app --jesse-root /srv/jesse was parsed: the flag --port without a
\* value counts for nothing, the last value of --port is taken, and the
\* service listens on 9011.
C33_Witness ==
    /\ argv = <<Flag(KeyPort), <<"0">>, Flag(KeyPort), <<"9", "0", "1", "1">>, Flag(KeyPort),
                Flag(KeyBotRoot), RootApp, Flag(KeyJesseRoot), JesseRoot>>
    /\ args.port = Some(<<"9", "0", "1", "1">>)
    /\ service.state = "listening"
    /\ service.port = Some(9011)

====
